---- MODULE Spec2Model ----
(***************************************************************************)
(* Dynamic context pruning: the StateManager (lib/state.ts), the Janitor   *)
(* (lib/janitor.ts) and the structural mutator (prune / pruneMessages).    *)
(*                                                                         *)
(* A Janitor run is an async function: the code between two awaits runs    *)
(* without interruption, and at every await other callbacks may run.  One  *)
(* action of the model is one such uninterrupted stretch of the code.      *)
(***************************************************************************)
EXTENDS Integers, Sequences, FiniteSets, TLC

(* ------------------------------ bounds --------------------------------- *)

\* longest list of tool parts of a session history, one run at a time
MaxTools == 4
\* longest list of tool parts of a session history under concurrent runs
MaxConcTools == 1
\* longest pruned_tool_call_ids list the oracle answers with, one run at a time
MaxOracle == 2
\* longest pruned_tool_call_ids list the oracle answers with under concurrent runs
MaxConcOracle == 1
\* most parts in a message list handed to prune
MaxParts == 2
\* most items (string messages and content blocks) of a request body
MaxItems == 2
\* most messages that the rewrites of a request body add to it
MaxPasses == 2
\* identifiers in a not-yet-pruned list handed to the error-pruning strategy
MaxCalls == 6
\* largest configured age window
MaxAge == 2

\* janitor.ts 34: a history of fewer messages is not analysed
MinMessages == 3

Sessions == {"s1", "s2"}
Runs == {"r1", "r2"}
\* the invocations are numbered in the order in which they start
Earlier(r) == IF r = "r2" THEN {"r1"} ELSE {}

\* call identifiers of the host's tool parts; "" is an absent callID
CallIds == {"call_1", "call_2", "prt_1", "prt_2"}

NoBatch == "null"

(* ------------------------------ helpers -------------------------------- *)

Range(seq) == {seq[i] : i \in 1..Len(seq)}

\* sequences over S of length at most n
SeqsUpTo(S, n) == UNION {[1..k -> S] : k \in 0..n}

\* String.prototype.startsWith('prt_') on the identifiers of the model
StartsWithPrt(id) == id \in {"prt_1", "prt_2"}

\* insertion into a JS Set kept as its insertion-ordered list of members
SetAdd(seq, x) == IF x \in Range(seq) THEN seq ELSE Append(seq, x)

RECURSIVE SetAddAll(_, _)
SetAddAll(seq, xs) ==
    IF xs = <<>> THEN seq ELSE SetAddAll(SetAdd(seq, Head(xs)), Tail(xs))

\* Math.round(n / 4) for n >= 0
RoundDiv4(n) == (n + 2) \div 4

(* --------------------------- lib/state.ts ------------------------------ *)

\* an absent entry of StateManager.state
NoEntry == [present |-> FALSE, prunedIds |-> <<>>, lastPruneCount |-> 0]

StateManagerGet(st, sessionID) ==
    IF st[sessionID].present THEN st[sessionID].prunedIds ELSE <<>>

StateManagerSet(st, sessionID, prunedIds) ==
    LET previousCount == IF st[sessionID].present
                         THEN Len(st[sessionID].prunedIds) ELSE 0
        newCount == Len(prunedIds) - previousCount
    IN  [st EXCEPT ![sessionID] =
            [present |-> TRUE, prunedIds |-> prunedIds, lastPruneCount |-> newCount]]

StateManagerGetLastPruneCount(st, sessionID) ==
    IF st[sessionID].present THEN st[sessionID].lastPruneCount ELSE 0

StateManagerResetLastPruneCount(st, sessionID) ==
    IF st[sessionID].present
    THEN [st EXCEPT ![sessionID].lastPruneCount = 0]
    ELSE st

\* a clear that empties the whole map (this.state.clear())
StateManagerClearsAll(st, sessionID) == [s \in DOMAIN st |-> NoEntry]

StateManagerClear(st, sessionID) == [st EXCEPT ![sessionID] = NoEntry]

(* ----------------------- session history (host) ------------------------ *)

\* values of the fields of a tool input: a string, or one of two tokens for
\* an absent field and for a value that is no string (a number)
Undefined == "<undefined>"
NotAString == "<number>"
IsString(v) == v \notin {Undefined, NotAString}

Fields == {"filePath", "content", "oldString", "newString", "limit"}

\* part.state.input: absent, or an object with some of the fields
NoInput == [present |-> FALSE, fields |-> [f \in Fields |-> Undefined]]

\* a part of a message: type, and for a tool part the callID, the tool and
\* part.state.status, part.state.output ("": none) and part.state.input
TextPart ==
    [type |-> "text", callID |-> "", tool |-> "", status |-> "", output |-> "",
     input |-> NoInput]

\* String.prototype.length on the output texts of the model
OutputLength(text) ==
    CASE text = "abcdef" -> 6
      [] text = "abcde"  -> 5
      [] OTHER           -> 0

\* status and output of the tool part with a given call identifier in the
\* histories the Janitor is run on
StatusOf(id) == IF id = "call_2" THEN "error" ELSE "completed"

OutputOf(id) ==
    CASE id = "call_1" -> "abcdef"
      [] id = "prt_1"  -> "abcde"
      [] OTHER         -> ""

ToolPart(id, tool) ==
    [type |-> "tool", callID |-> id, tool |-> tool,
     status |-> StatusOf(id), output |-> OutputOf(id), input |-> NoInput]

\* the tools a call identifier may belong to: the host gives the prt_
\* identifiers to the calls a batch makes, and a batch makes no batch call
JanitorTools(id) == IF StartsWithPrt(id) THEN {"read"} ELSE {"batch", "read"}

\* lists of at most n tool parts with pairwise distinct call identifiers from ids
ToolStreams(ids, n) ==
    {ps \in SeqsUpTo(UNION {{ToolPart(id, tl) : tl \in JanitorTools(id)} : id \in ids}, n) :
        \A i, j \in 1..Len(ps) : ps[i].callID = ps[j].callID => i = j}

Message(parts) == [compacted |-> FALSE, parts |-> parts]

\* pad text-only messages, then the tool parts: one message each, or all of
\* them in one message
MkHistory(stream, pad, grouped) ==
    [i \in 1..pad |-> Message(<<TextPart>>)] \o
    (IF grouped THEN <<Message(stream)>>
     ELSE [i \in 1..Len(stream) |-> Message(<<stream[i]>>)])

\* histories on either side of the MinMessages threshold
Histories(ids, n, groupings) ==
    {MkHistory(ps, pad, g) :
        ps \in ToolStreams(ids, n), pad \in {0, MinMessages - 1}, g \in groupings}

(* --------------------------- lib/janitor.ts ---------------------------- *)

VARIABLES
    state,      \* StateManager.state: sessionID -> PruningMetadata
    history,    \* the host's message list of each session
    janitor,    \* the Janitor.run invocations: position and locals of each
    messages,   \* the message list handed to prune
    toolIds,    \* state.prune.toolIds of the SessionState handed to prune
    original,   \* the message list as it was before the first call of prune
    pruned,     \* prune has been called on the message list
    body,       \* the outbound request body a format descriptor works on
    toolParameters, \* PluginState.toolParameters: identifier -> ToolParameterEntry
    ret,        \* the last call of a descriptor method and what it returned
    tracker,    \* the ToolTracker: seenToolResultIds and toolResultCount
    strategy    \* the arguments of the error-pruning strategy and its result

vars == <<state, history, janitor, messages, toolIds, original, pruned,
          body, toolParameters, ret, tracker, strategy>>

janitorVars == <<state, history, janitor>>
mutatorVars == <<messages, toolIds, original, pruned>>
descriptorVars == <<body, toolParameters, ret, tracker>>
strategyVars == <<strategy>>

\* the scan with a cursor that a non-prt_ tool call does not reset
ScanPartKeepsCursor(acc, part) ==
    IF ~(part.type = "tool" /\ part.callID # "") THEN acc
    ELSE
      LET id == part.callID
          ids == Append(acc.toolCallIds, id)
          outs == IF part.status = "completed" /\ part.output # ""
                  THEN [x \in DOMAIN acc.toolOutputs \cup {id} |->
                            IF x = id THEN part.output ELSE acc.toolOutputs[x]]
                  ELSE acc.toolOutputs
          kids == acc.batchToolChildren
          cur == acc.currentBatchId
      IN  IF part.tool = "batch"
          THEN [toolCallIds |-> ids, toolOutputs |-> outs,
                batchToolChildren |->
                    [x \in DOMAIN kids \cup {id} |-> IF x = id THEN <<>> ELSE kids[x]],
                currentBatchId |-> id]
          ELSE IF cur # NoBatch /\ StartsWithPrt(id)
          THEN [toolCallIds |-> ids, toolOutputs |-> outs,
                batchToolChildren |-> [kids EXCEPT ![cur] = Append(@, id)],
                currentBatchId |-> cur]
          ELSE [toolCallIds |-> ids, toolOutputs |-> outs,
                batchToolChildren |-> kids, currentBatchId |-> cur]

\* one step of the scan over the parts (janitor.ts 52-90)
ScanPart(acc, part) ==
    IF ~(part.type = "tool" /\ part.callID # "") THEN acc
    ELSE
      LET id == part.callID
          ids == Append(acc.toolCallIds, id)
          outs == IF part.status = "completed" /\ part.output # ""
                  THEN [x \in DOMAIN acc.toolOutputs \cup {id} |->
                            IF x = id THEN part.output ELSE acc.toolOutputs[x]]
                  ELSE acc.toolOutputs
          kids == acc.batchToolChildren
          cur == acc.currentBatchId
      IN  IF part.tool = "batch"
          THEN [toolCallIds |-> ids, toolOutputs |-> outs,
                batchToolChildren |->
                    [x \in DOMAIN kids \cup {id} |-> IF x = id THEN <<>> ELSE kids[x]],
                currentBatchId |-> id]
          ELSE IF cur # NoBatch /\ StartsWithPrt(id)
          THEN [toolCallIds |-> ids, toolOutputs |-> outs,
                batchToolChildren |-> [kids EXCEPT ![cur] = Append(@, id)],
                currentBatchId |-> cur]
          ELSE IF cur # NoBatch /\ ~StartsWithPrt(id)
          THEN [toolCallIds |-> ids, toolOutputs |-> outs,
                batchToolChildren |-> kids, currentBatchId |-> NoBatch]
          ELSE [toolCallIds |-> ids, toolOutputs |-> outs,
                batchToolChildren |-> kids, currentBatchId |-> cur]

RECURSIVE ScanParts(_, _)
ScanParts(acc, parts) ==
    IF parts = <<>> THEN acc
    ELSE ScanParts(ScanPart(acc, Head(parts)), Tail(parts))

RECURSIVE ScanMessages(_, _)
ScanMessages(acc, msgs) ==
    IF msgs = <<>> THEN acc
    ELSE ScanMessages(ScanParts(acc, Head(msgs).parts), Tail(msgs))

\* janitor.ts 44-93: the locals the scan leaves behind
Scan(msgs) ==
    ScanMessages([toolCallIds |-> <<>>, toolOutputs |-> <<>>,
                  batchToolChildren |-> <<>>, currentBatchId |-> NoBatch], msgs)

\* janitor.ts 110: toolCallIds.filter(id => !alreadyPrunedIds.includes(id))
RECURSIVE FilterUnpruned(_, _)
FilterUnpruned(toolCallIds, alreadyPrunedIds) ==
    IF toolCallIds = <<>> THEN <<>>
    ELSE LET rest == FilterUnpruned(Tail(toolCallIds), alreadyPrunedIds)
         IN  IF Head(toolCallIds) \in Range(alreadyPrunedIds) THEN rest
             ELSE <<Head(toolCallIds)>> \o rest

\* an expansion that also goes from a child to its batch and its siblings
RECURSIVE ExpandPrunedIdsWithFamily(_, _, _)
ExpandPrunedIdsWithFamily(expanded, prunedToolCallIds, batchToolChildren) ==
    IF prunedToolCallIds = <<>> THEN expanded
    ELSE LET prunedId == Head(prunedToolCallIds)
             added == SetAdd(expanded, prunedId)
             parents == {b \in DOMAIN batchToolChildren :
                            prunedId \in Range(batchToolChildren[b])}
             withChildren ==
                 IF prunedId \in DOMAIN batchToolChildren
                 THEN SetAddAll(added, batchToolChildren[prunedId])
                 ELSE IF parents # {}
                 THEN LET b == CHOOSE x \in parents : TRUE
                      IN  SetAddAll(SetAdd(added, b), batchToolChildren[b])
                 ELSE added
         IN  ExpandPrunedIdsWithFamily(withChildren, Tail(prunedToolCallIds),
                                       batchToolChildren)

\* janitor.ts 170-188: the oracle's identifiers, each batch followed by its children
RECURSIVE ExpandPrunedIds(_, _, _)
ExpandPrunedIds(expanded, prunedToolCallIds, batchToolChildren) ==
    IF prunedToolCallIds = <<>> THEN expanded
    ELSE LET prunedId == Head(prunedToolCallIds)
             added == SetAdd(expanded, prunedId)
             withChildren ==
                 IF prunedId \in DOMAIN batchToolChildren
                 THEN SetAddAll(added, batchToolChildren[prunedId])
                 ELSE added
         IN  ExpandPrunedIds(withChildren, Tail(prunedToolCallIds), batchToolChildren)

\* janitor.ts 198-208
RECURSIVE TotalCharsSaved(_, _)
TotalCharsSaved(finalPrunedIds, toolOutputs) ==
    IF finalPrunedIds = <<>> THEN 0
    ELSE (IF Head(finalPrunedIds) \in DOMAIN toolOutputs
          THEN OutputLength(toolOutputs[Head(finalPrunedIds)]) ELSE 0)
         + TotalCharsSaved(Tail(finalPrunedIds), toolOutputs)

EstimatedTokensSaved(finalPrunedIds, toolOutputs) ==
    RoundDiv4(TotalCharsSaved(finalPrunedIds, toolOutputs))

\* a merge without the Set: [...alreadyPrunedIds, ...finalPrunedIds]
MergePrunedIdsConcat(alreadyPrunedIds, finalPrunedIds) ==
    alreadyPrunedIds \o finalPrunedIds

\* janitor.ts 211: [...new Set([...alreadyPrunedIds, ...finalPrunedIds])]
MergePrunedIds(alreadyPrunedIds, finalPrunedIds) ==
    SetAddAll(<<>>, alreadyPrunedIds \o finalPrunedIds)

NotStarted ==
    [pc |-> "idle", sessionID |-> "", messageCount |-> 0,
     toolCallIds |-> <<>>, toolOutputs |-> <<>>, batchToolChildren |-> <<>>,
     alreadyPrunedIds |-> <<>>, unprunedToolCallIds |-> <<>>,
     oracleIds |-> <<>>, finalPrunedIds |-> <<>>, allPrunedIds |-> <<>>,
     estimatedTokensSaved |-> 0, calls |-> {}, toast |-> "none",
     outcome |-> "none", settled |-> "pending"]

\* run returns: the promise of Janitor.run resolves and the locals are gone
Return(j, outcome) ==
    [NotStarted EXCEPT !.pc = "done", !.sessionID = j.sessionID,
                       !.messageCount = j.messageCount, !.calls = j.calls,
                       !.toast = j.toast, !.outcome = outcome, !.settled = "resolved"]

\* a catch block that rethrows: the promise of Janitor.run rejects
CatchErrorRethrows(j) == [Return(j, "failed") EXCEPT !.settled = "rejected"]

\* janitor.ts 246-254: the outer catch logs the error and does not rethrow
CatchError(j) == Return(j, "failed")

\* janitor.ts 237-243: the catch around showToast logs and falls through to the
\* end of the try block
CatchToastError(j) == Return([j EXCEPT !.toast = "failed"], "pruned")

\* the host's idle event: janitor.run(sessionID) runs up to its first await
\* (janitor.ts 14-23)
Start(r, sessionID) ==
    /\ janitor[r].pc = "idle"
    /\ \A q \in Earlier(r) : janitor[q].pc # "idle"
    /\ janitor' = [janitor EXCEPT ![r] =
                      [@ EXCEPT !.pc = "messages", !.sessionID = sessionID]]
    /\ UNCHANGED <<state, history, mutatorVars, descriptorVars, strategyVars>>

\* client.session.messages answers: janitor.ts 26-109, up to the await of
\* stateManager.get, whose body has already run
MessagesReturn(r) ==
    LET j == janitor[r]
        msgs == history[j.sessionID]
        scan == Scan(msgs)
    IN  /\ j.pc = "messages"
        /\ janitor' = [janitor EXCEPT ![r] =
              IF Len(msgs) < MinMessages
              THEN Return([j EXCEPT !.messageCount = Len(msgs)], "too_few")
              ELSE [j EXCEPT !.pc = "get",
                             !.messageCount = Len(msgs),
                             !.toolCallIds = scan.toolCallIds,
                             !.toolOutputs = scan.toolOutputs,
                             !.batchToolChildren = scan.batchToolChildren,
                             !.alreadyPrunedIds = StateManagerGet(state, j.sessionID)]]
        /\ UNCHANGED <<state, history, mutatorVars, descriptorVars, strategyVars>>

\* client.session.messages rejects, or answers with something that is no message list
MessagesFail(r) ==
    /\ janitor[r].pc = "messages"
    /\ janitor' = [janitor EXCEPT ![r] = CatchError(@)]
    /\ UNCHANGED <<state, history, mutatorVars, descriptorVars, strategyVars>>

\* a run that asks the oracle even when nothing is left to prune
GetReturnNoSkip(r) ==
    LET j == janitor[r]
        unpruned == FilterUnpruned(j.toolCallIds, j.alreadyPrunedIds)
    IN  /\ j.pc = "get"
        /\ janitor' = [janitor EXCEPT ![r] =
              [j EXCEPT !.pc = "oracle",
                        !.unprunedToolCallIds = unpruned,
                        !.calls = @ \cup {"oracle"}]]
        /\ UNCHANGED <<state, history, mutatorVars, descriptorVars, strategyVars>>

\* janitor.ts 110-132, up to the await of generateObject
GetReturn(r) ==
    LET j == janitor[r]
        unpruned == FilterUnpruned(j.toolCallIds, j.alreadyPrunedIds)
    IN  /\ j.pc = "get"
        /\ janitor' = [janitor EXCEPT ![r] =
              IF Len(unpruned) = 0
              THEN Return(j, "no_unpruned")
              ELSE [j EXCEPT !.pc = "oracle",
                             !.unprunedToolCallIds = unpruned,
                             !.calls = @ \cup {"oracle"}]]
        /\ UNCHANGED <<state, history, mutatorVars, descriptorVars, strategyVars>>

\* what generateObject may answer to a run: lists over the identifiers of the
\* history it was shown and one identifier that occurs nowhere
OracleAnswers(j, n) == SeqsUpTo(Range(j.toolCallIds) \cup {"call_x"}, n)

\* the locals of janitor.ts 170-211 for an oracle answer
Decide(j, prunedToolCallIds) ==
    LET final == ExpandPrunedIds(<<>>, prunedToolCallIds, j.batchToolChildren)
    IN  [j EXCEPT !.oracleIds = prunedToolCallIds,
                  !.finalPrunedIds = final,
                  !.estimatedTokensSaved = EstimatedTokensSaved(final, j.toolOutputs),
                  !.allPrunedIds = MergePrunedIds(j.alreadyPrunedIds, final)]

\* generateObject answers with a valid object: janitor.ts 170-212, up to the
\* await of stateManager.set, whose body has already run
OracleReturn(r, longest) ==
    /\ janitor[r].pc = "oracle"
    /\ \E prunedToolCallIds \in OracleAnswers(janitor[r], longest) :
          LET j == Decide(janitor[r], prunedToolCallIds)
          IN  /\ state' = StateManagerSet(state, j.sessionID, j.allPrunedIds)
              /\ janitor' = [janitor EXCEPT ![r] =
                                [j EXCEPT !.pc = "set", !.calls = @ \cup {"set"}]]
        /\ UNCHANGED <<history, mutatorVars, descriptorVars, strategyVars>>

\* an oracle failure handled as an empty answer: the snapshot is written back
OracleFailCommits(r) ==
    LET j == janitor[r]
    IN  /\ j.pc = "oracle"
        /\ state' = StateManagerSet(state, j.sessionID, j.alreadyPrunedIds)
        /\ janitor' = [janitor EXCEPT ![r] =
                          Return([j EXCEPT !.calls = @ \cup {"set"}], "failed")]
        /\ UNCHANGED <<history, mutatorVars, descriptorVars, strategyVars>>

\* generateObject throws: network error or an object that fails the schema
OracleFail(r) ==
    /\ janitor[r].pc = "oracle"
    /\ janitor' = [janitor EXCEPT ![r] = CatchError(@)]
    /\ UNCHANGED <<state, history, mutatorVars, descriptorVars, strategyVars>>

\* janitor.ts 213-229, up to the await of showToast
SetReturn(r) ==
    LET j == janitor[r]
    IN  /\ j.pc = "set"
        /\ janitor' = [janitor EXCEPT ![r] =
              IF Len(j.finalPrunedIds) > 0
              THEN [j EXCEPT !.pc = "toast", !.calls = @ \cup {"toast"}]
              ELSE Return(j, "pruned")]
        /\ UNCHANGED <<state, history, mutatorVars, descriptorVars, strategyVars>>

\* janitor.ts 231-236
ToastReturn(r) ==
    /\ janitor[r].pc = "toast"
    /\ janitor' = [janitor EXCEPT ![r] = Return([@ EXCEPT !.toast = "shown"], "pruned")]
    /\ UNCHANGED <<state, history, mutatorVars, descriptorVars, strategyVars>>

\* a notification failure that undoes the commit: the snapshot is written back
ToastFailRollsBack(r) ==
    LET j == janitor[r]
    IN  /\ j.pc = "toast"
        /\ state' = StateManagerSet(state, j.sessionID, j.alreadyPrunedIds)
        /\ janitor' = [janitor EXCEPT ![r] = CatchToastError(j)]
        /\ UNCHANGED <<history, mutatorVars, descriptorVars, strategyVars>>

\* showToast rejects
ToastFail(r) ==
    /\ janitor[r].pc = "toast"
    /\ janitor' = [janitor EXCEPT ![r] = CatchToastError(@)]
    /\ UNCHANGED <<state, history, mutatorVars, descriptorVars, strategyVars>>

\* the host calls stateManager.resetLastPruneCount(sessionID)
ResetLastPruneCount(sessionID) ==
    /\ state' = StateManagerResetLastPruneCount(state, sessionID)
    /\ UNCHANGED <<history, janitor, mutatorVars, descriptorVars, strategyVars>>

\* session teardown: stateManager.clear(sessionID)
Clear(sessionID) ==
    /\ state' = StateManagerClear(state, sessionID)
    /\ UNCHANGED <<history, janitor, mutatorVars, descriptorVars, strategyVars>>

\* no descriptor method has been called
NoCall == [op |-> "none", arg |-> "", value |-> FALSE, count |-> 0]

\* a tracker that has seen no tool result
NoTracker == [seenToolResultIds |-> {}, toolResultCount |-> 0]

\* no request is under way
DescriptorIdle ==
    /\ body = [system |-> FALSE, inferenceConfig |-> FALSE, messages |-> <<>>]
    /\ toolParameters = <<>>
    /\ ret = NoCall
    /\ tracker = NoTracker

\* the error-pruning strategy has not been called
NoStrategy ==
    [toolMetadata |-> <<>>, unprunedIds |-> <<>>, protectedTools |-> <<>>,
     config |-> [hasMinAge |-> FALSE, minAge |-> 0],
     prunedIds |-> <<>>, called |-> FALSE]

StrategyIdle == strategy = NoStrategy

\* prune is not called
MutatorIdle ==
    /\ messages = <<>>
    /\ toolIds = <<>>
    /\ original = <<>>
    /\ pruned = FALSE

\* two sessions with the same short history, two runs that may overlap
Init ==
    /\ state = [s \in Sessions |-> NoEntry]
    /\ \E h \in Histories({"call_1", "prt_1"}, MaxConcTools, {FALSE}) :
          history = [s \in Sessions |-> h]
    /\ janitor = [r \in Runs |-> NotStarted]
    /\ MutatorIdle
    /\ DescriptorIdle
    /\ StrategyIdle

Next ==
    \/ \E r \in Runs, s \in Sessions : Start(r, s)
    \/ \E r \in Runs : MessagesReturn(r)
    \/ \E r \in Runs : MessagesFail(r)
    \/ \E r \in Runs : GetReturn(r)
    \/ \E r \in Runs : OracleReturn(r, MaxConcOracle)
    \/ \E r \in Runs : OracleFail(r)
    \/ \E r \in Runs : SetReturn(r)
    \/ \E r \in Runs : ToastReturn(r)
    \/ \E r \in Runs : ToastFail(r)
    \/ \E s \in Sessions : ResetLastPruneCount(s)
    \/ \E s \in Sessions : Clear(s)

Spec == Init /\ [][Next]_vars

\* pruned sets an earlier run may have left behind
PriorPruned == {<<>>, <<"call_1">>, <<"prt_1">>, <<"call_x">>}

\* one run on one session, over every history of at most MaxTools tool parts
InitSeq ==
    /\ \E prior \in PriorPruned :
          state = [s \in Sessions |->
                     IF s = "s1" /\ prior # <<>>
                     THEN [present |-> TRUE, prunedIds |-> prior,
                           lastPruneCount |-> Len(prior)]
                     ELSE NoEntry]
    /\ \E h \in Histories(CallIds, MaxTools, BOOLEAN) :
          history = [s \in Sessions |-> IF s = "s1" THEN h ELSE <<>>]
    /\ janitor = [r \in Runs |-> NotStarted]
    /\ MutatorIdle
    /\ DescriptorIdle
    /\ StrategyIdle

NextSeq ==
    \/ Start("r1", "s1")
    \/ MessagesReturn("r1")
    \/ MessagesFail("r1")
    \/ GetReturn("r1")
    \/ OracleReturn("r1", MaxOracle)
    \/ OracleFail("r1")
    \/ SetReturn("r1")
    \/ ToastReturn("r1")
    \/ ToastFail("r1")

SpecSeq == InitSeq /\ [][NextSeq]_vars


\* every external call a started run waits for is answered or fails, and the
\* event loop then runs the continuation
RunStep(r) ==
    \/ MessagesReturn(r) \/ MessagesFail(r) \/ GetReturn(r)
    \/ OracleReturn(r, MaxConcOracle)
    \/ OracleFail(r) \/ SetReturn(r) \/ ToastReturn(r) \/ ToastFail(r)

SpecFair == Spec /\ \A r \in Runs : WF_vars(RunStep(r))

(* ------------------- prune / pruneMessages (mutator) ------------------- *)

PRUNED_TOOL_INPUT_REPLACEMENT ==
    "[content removed to save context, this is not what was written to the file, but a placeholder]"
PRUNED_TOOL_OUTPUT_REPLACEMENT ==
    "[Output removed to save context - information superseded or no longer needed]"
PRUNED_TOOL_ERROR_INPUT_REPLACEMENT == "[input removed due to failed tool call]"

\* isMessageCompacted(state, msg) of shared-utils: the message lies in the
\* compacted region of the history
IsMessageCompacted(msg) == msg.compacted

\* a replacement that writes a second placeholder over the first
PruneOutputToggles(part) ==
    IF part.tool # "write" /\ part.tool # "edit" /\ part.status = "completed"
    THEN [part EXCEPT !.output =
             IF part.output = PRUNED_TOOL_OUTPUT_REPLACEMENT
             THEN PRUNED_TOOL_ERROR_INPUT_REPLACEMENT
             ELSE PRUNED_TOOL_OUTPUT_REPLACEMENT]
    ELSE part

\* a replacement without the test of the status
PruneOutputAnyStatus(part) ==
    IF part.tool # "write" /\ part.tool # "edit"
    THEN [part EXCEPT !.output = PRUNED_TOOL_OUTPUT_REPLACEMENT]
    ELSE part

\* lines 35-40: the output of a completed tool other than write and edit
PruneOutput(part) ==
    IF part.tool # "write" /\ part.tool # "edit" /\ part.status = "completed"
    THEN [part EXCEPT !.output = PRUNED_TOOL_OUTPUT_REPLACEMENT]
    ELSE part

\* the assignment without the test for an absent field
ReplaceFieldCreates(part, field) ==
    [part EXCEPT !.input.fields[field] = PRUNED_TOOL_INPUT_REPLACEMENT]

\* input.<field> = placeholder, if input?.<field> !== undefined
ReplaceField(part, field) ==
    IF part.input.present /\ part.input.fields[field] # Undefined
    THEN [part EXCEPT !.input.fields[field] = PRUNED_TOOL_INPUT_REPLACEMENT]
    ELSE part

\* lines 42-57: the content-bearing input fields of a completed write or edit
PruneInput(part) ==
    IF (part.tool = "write" \/ part.tool = "edit") /\ part.status = "completed"
    THEN IF part.tool = "write" THEN ReplaceField(part, "content")
         ELSE ReplaceField(ReplaceField(part, "oldString"), "newString")
    ELSE part

\* lines 59-69: every string-valued field of the input of a failed call
PruneError(part) ==
    IF part.status = "error" /\ part.input.present
    THEN [part EXCEPT !.input.fields =
             [f \in Fields |-> IF IsString(part.input.fields[f])
                               THEN PRUNED_TOOL_ERROR_INPUT_REPLACEMENT
                               ELSE part.input.fields[f]]]
    ELSE part

\* a mutator that leaves the output of every tool part alone
PrunePartKeepsOutput(ids, part) ==
    IF part.type # "tool" THEN part
    ELSE IF part.callID \notin Range(ids) THEN part
    ELSE PruneError(PruneInput(part))

\* lines 27-70: the body of the loop over the parts of a message
PrunePart(ids, part) ==
    IF part.type # "tool" THEN part
    ELSE IF part.callID \notin Range(ids) THEN part
    ELSE PruneError(PruneInput(PruneOutput(part)))

\* the loop without the test for a compacted message
PruneMessagesIgnoresCompacted(ids, msgs) ==
    [i \in 1..Len(msgs) |->
        [msgs[i] EXCEPT !.parts =
            [k \in 1..Len(msgs[i].parts) |-> PrunePart(ids, msgs[i].parts[k])]]]

\* lines 21-72
PruneMessages(ids, msgs) ==
    [i \in 1..Len(msgs) |->
        IF IsMessageCompacted(msgs[i]) THEN msgs[i]
        ELSE [msgs[i] EXCEPT !.parts =
                 [k \in 1..Len(msgs[i].parts) |-> PrunePart(ids, msgs[i].parts[k])]]]

\* the inputs a tool part is drawn with: none, an object with every field, an
\* object with the path and a number only
FullInput ==
    [present |-> TRUE,
     fields |-> [f \in Fields |->
                    CASE f = "filePath"  -> "a.ts"
                      [] f = "content"   -> "text"
                      [] f = "oldString" -> "old"
                      [] f = "newString" -> "new"
                      [] OTHER           -> NotAString]]

SparseInput ==
    [present |-> TRUE,
     fields |-> [f \in Fields |->
                    CASE f = "filePath" -> "a.ts"
                      [] f = "limit"    -> NotAString
                      [] OTHER          -> Undefined]]

MutatorTools == {"read", "write", "edit"}
Statuses == {"pending", "running", "completed", "error"}

MutatorPart(id, tl, st, inp) ==
    [type |-> "tool", callID |-> id, tool |-> tl, status |-> st,
     output |-> IF st = "completed" THEN "abcdef" ELSE "", input |-> inp]

\* a text part and the tool parts: a call that has ended with any of the three
\* inputs, a call that has not with the full one
MutatorParts ==
    {TextPart} \cup
    {MutatorPart(id, tl, st, inp) :
        id \in {"call_1", "call_2"}, tl \in MutatorTools, st \in {"completed", "error"},
        inp \in {NoInput, FullInput, SparseInput}} \cup
    {MutatorPart(id, tl, st, FullInput) :
        id \in {"call_1", "call_2"}, tl \in MutatorTools, st \in {"pending", "running"}}

\* the parts in one message each, the first c of them compacted, or (c beyond
\* the number of parts) all in one message, compacted or not
MkMessages(ps, c) ==
    IF c <= Len(ps)
    THEN [i \in 1..Len(ps) |-> [compacted |-> (i <= c), parts |-> <<ps[i]>>]]
    ELSE <<[compacted |-> (c = Len(ps) + 1), parts |-> ps]>>

\* prune(state, logger, config, messages): lines 12-19
Prune ==
    /\ messages' = PruneMessages(toolIds, messages)
    /\ pruned' = TRUE
    /\ UNCHANGED <<toolIds, original, janitorVars, descriptorVars, strategyVars>>

InitMut ==
    /\ state = [s \in Sessions |-> NoEntry]
    /\ history = [s \in Sessions |-> <<>>]
    /\ janitor = [r \in Runs |-> NotStarted]
    /\ \E n \in 0..MaxParts : \E ps \in [1..n -> MutatorParts] : \E c \in 0..(n + 2) :
          messages = MkMessages(ps, c)
    /\ original = messages
    /\ toolIds = <<"call_1">>
    /\ pruned = FALSE
    /\ DescriptorIdle
    /\ StrategyIdle

NextMut == Prune

SpecMut == InitMut /\ [][NextMut]_vars

\* the SessionState the host hands to prune: its prune.toolIds list
SessionToolIds == {<<>>, <<"call_1">>}

\* one session: a Janitor run on it, and the host calling prune on the
\* session's message list with the SessionState of the session
InitShared ==
    /\ state = [s \in Sessions |-> NoEntry]
    /\ \E h \in Histories({"call_1", "CALL_1", "prt_1"}, MaxParts, {FALSE}) :
          history = [s \in Sessions |-> IF s = "s1" THEN h ELSE <<>>]
    /\ janitor = [r \in Runs |-> NotStarted]
    /\ messages = history["s1"]
    /\ original = messages
    /\ toolIds \in SessionToolIds
    /\ pruned = FALSE
    /\ DescriptorIdle
    /\ StrategyIdle

NextShared ==
    \/ Start("r1", "s1")
    \/ MessagesReturn("r1")
    \/ MessagesFail("r1")
    \/ GetReturn("r1")
    \/ OracleReturn("r1", MaxConcOracle)
    \/ OracleFail("r1")
    \/ SetReturn("r1")
    \/ ToastReturn("r1")
    \/ ToastFail("r1")
    \/ Prune

SpecShared == InitShared /\ [][NextShared]_vars

(* ------------------- lib/factory.ts: bedrockFormat --------------------- *)

\* String.prototype.toLowerCase on the identifiers and tool names of the model
ToLowerCase(id) ==
    CASE id = "CALL_1" -> "call_1"
      [] id = "Bash"   -> "bash"
      [] OTHER         -> id

\* the toolUseId values of a request body; "" is an absent toolUseId
WireIds == {"CALL_1", "call_1", "call_2"}

\* a text is the list of its words: includes is the search for a contiguous
\* sublist, and + is concatenation
Includes(text, pat) ==
    \E i \in 0..(Len(text) - Len(pat)) : SubSeq(text, i + 1, i + Len(pat)) = pat

Instruction == <<"i1", "i2">>
NudgeText == <<"n1">>
Separator == <<"\n\n">>

\* a content block: {text}, {toolUse: {toolUseId, name, input}},
\* {toolResult: {toolUseId, content, status}} or {cachePoint}; type is the
\* block's type field, which the blocks of a Converse request do not have
TextBlock(text, type) ==
    [kind |-> "text", type |-> type, text |-> text, toolUseId |-> "", name |-> "",
     input |-> "", content |-> <<>>, status |-> ""]

ToolUseBlock(id, name, input) ==
    [kind |-> "toolUse", type |-> Undefined, text |-> <<>>, toolUseId |-> id,
     name |-> name, input |-> input, content |-> <<>>, status |-> ""]

ToolResultBlock(id, content, status) ==
    [kind |-> "toolResult", type |-> Undefined, text |-> <<>>, toolUseId |-> id,
     name |-> "", input |-> "", content |-> content, status |-> status]

CachePointBlock ==
    [kind |-> "cachePoint", type |-> Undefined, text |-> <<>>, toolUseId |-> "",
     name |-> "", input |-> "", content |-> <<>>, status |-> ""]

\* a message: role, content as a string (isString, text) or as an array of
\* blocks, and the tool_call_id that the tool messages of a chat-completions
\* sequence have ("": none)
StringMessage(role, text) ==
    [role |-> role, isString |-> TRUE, isArray |-> FALSE, text |-> text,
     blocks |-> <<>>, tool_call_id |-> ""]

ArrayMessage(role, blocks) ==
    [role |-> role, isString |-> FALSE, isArray |-> TRUE, text |-> <<>>,
     blocks |-> blocks, tool_call_id |-> ""]

\* a message whose content is neither a string nor an array (absent, null or
\* an object)
OtherMessage(role) ==
    [role |-> role, isString |-> FALSE, isArray |-> FALSE, text |-> <<>>,
     blocks |-> <<>>, tool_call_id |-> ""]

\* {role: 'tool', tool_call_id, content} of a chat-completions sequence
ToolMessage(id, text) == [StringMessage("tool", text) EXCEPT !.tool_call_id = id]

\* {type: 'tool_result', tool_use_id, content} of a messages-style sequence;
\* toolUseId holds its tool_use_id
ToolResultPart(id, content) ==
    [kind |-> "tool_result", type |-> "tool_result", text |-> <<>>, toolUseId |-> id,
     name |-> "", input |-> "", content |-> content, status |-> ""]

\* part.tool_use_id
ToolUseIdOfPart(part) == IF part.kind = "tool_result" THEN part.toolUseId ELSE ""

\* lines 108-116; system is Array.isArray(body.system), inferenceConfig is
\* body.inferenceConfig !== undefined, and body.messages is an array
Detect(b) == b.system /\ b.inferenceConfig

\* lines 118-120
GetDataArray(b) == b.messages

\* Map.prototype.set on a map kept as a function
MapSet(map, key, value) ==
    [k \in DOMAIN map \cup {key} |-> IF k = key THEN value ELSE map[k]]

\* the toolUse blocks with a toolUseId of the assistant messages whose content
\* is an array, in the order the two loops of lines 125-128 visit them
RECURSIVE AssistantToolUses(_)
AssistantToolUses(data) ==
    IF data = <<>> THEN <<>>
    ELSE (IF Head(data).role = "assistant" /\ Head(data).isArray
          THEN SelectSeq(Head(data).blocks,
                         LAMBDA b : b.kind = "toolUse" /\ b.toolUseId # "")
          ELSE <<>>)
         \o AssistantToolUses(Tail(data))

\* a scan that leaves an identifier it has an entry for alone
RECURSIVE CacheToolUsesKeepsFirst(_, _)
CacheToolUsesKeepsFirst(uses, map) ==
    IF uses = <<>> THEN map
    ELSE CacheToolUsesKeepsFirst(Tail(uses),
             IF ToLowerCase(Head(uses).toolUseId) \in DOMAIN map THEN map
             ELSE MapSet(map, ToLowerCase(Head(uses).toolUseId),
                         [tool |-> Head(uses).name, parameters |-> Head(uses).input,
                          status |-> Undefined]))

\* lines 129-133: one state.toolParameters.set per block
RECURSIVE CacheToolUses(_, _)
CacheToolUses(uses, map) ==
    IF uses = <<>> THEN map
    ELSE CacheToolUses(Tail(uses),
             MapSet(map, ToLowerCase(Head(uses).toolUseId),
                    [tool |-> Head(uses).name, parameters |-> Head(uses).input,
                     status |-> Undefined]))

\* cacheToolParametersFromMessages of state/tool-cache: the scan for the
\* tool_calls of a chat-completions sequence, of which a Converse sequence
\* has none
CacheToolParametersFromMessages(data, map) == map

\* lines 122-144
CacheToolParameters(data, map) ==
    CacheToolParametersFromMessages(data, CacheToolUses(AssistantToolUses(data), map))

\* line 191: the test of the map callback
MatchesToolResult(block, toolIdLower) ==
    block.kind = "toolResult" /\ block.toolUseId # ""
        /\ ToLowerCase(block.toolUseId) = toolIdLower

\* a replacement that drops the other blocks of the message
ReplaceToolOutputDropsBlocks(data, toolId, prunedMessage) ==
    LET toolIdLower == ToLowerCase(toolId)
        modified(m) == m.role = "user" /\ m.isArray
                       /\ \E k \in 1..Len(m.blocks) : MatchesToolResult(m.blocks[k], toolIdLower)
    IN  [data |-> [i \in 1..Len(data) |->
                      IF modified(data[i])
                      THEN [data[i] EXCEPT !.blocks =
                               <<[SelectSeq(@, LAMBDA b : MatchesToolResult(b, toolIdLower))[1]
                                     EXCEPT !.content = <<prunedMessage>>]>>]
                      ELSE data[i]],
         replaced |-> \E i \in 1..Len(data) : modified(data[i])]

\* a replacement that writes { content: newContent } without the spread of m
ReplaceToolOutputLosesRole(data, toolId, prunedMessage) ==
    LET toolIdLower == ToLowerCase(toolId)
        newContent(m) ==
            [k \in 1..Len(m.blocks) |->
                IF MatchesToolResult(m.blocks[k], toolIdLower)
                THEN [m.blocks[k] EXCEPT !.content = <<prunedMessage>>]
                ELSE m.blocks[k]]
        modified(m) == m.role = "user" /\ m.isArray
                       /\ \E k \in 1..Len(m.blocks) : MatchesToolResult(m.blocks[k], toolIdLower)
    IN  [data |-> [i \in 1..Len(data) |->
                      IF modified(data[i])
                      THEN [data[i] EXCEPT !.blocks = newContent(data[i]),
                                           !.role = Undefined]
                      ELSE data[i]],
         replaced |-> \E i \in 1..Len(data) : modified(data[i])]

\* lines 180-212: the array after the call, and the value returned
ReplaceToolOutput(data, toolId, prunedMessage) ==
    LET toolIdLower == ToLowerCase(toolId)
        newContent(m) ==
            [k \in 1..Len(m.blocks) |->
                IF MatchesToolResult(m.blocks[k], toolIdLower)
                THEN [m.blocks[k] EXCEPT !.content = <<prunedMessage>>]
                ELSE m.blocks[k]]
        messageModified(m) ==
            \E k \in 1..Len(m.blocks) : MatchesToolResult(m.blocks[k], toolIdLower)
        modified(m) == m.role = "user" /\ m.isArray /\ messageModified(m)
    IN  [data |-> [i \in 1..Len(data) |->
                      IF modified(data[i])
                      THEN [data[i] EXCEPT !.blocks = newContent(data[i])]
                      ELSE data[i]],
         replaced |-> \E i \in 1..Len(data) : modified(data[i])]

\* lines 24-29
IsNudgeMessage(msg, nudgeText) == msg.isString /\ msg.text = nudgeText

\* lines 31-52: the array after the call, and the value returned
InjectSynth(msgs, instruction, nudgeText) ==
    LET targets == {i \in 1..Len(msgs) :
                       msgs[i].role = "user" /\ ~IsNudgeMessage(msgs[i], nudgeText)}
    IN  IF targets = {} THEN [data |-> msgs, value |-> FALSE]
        ELSE
          LET i == CHOOSE k \in targets : \A m \in targets : m <= k
              msg == msgs[i]
              alreadyInjected ==
                  \E k \in 1..Len(msg.blocks) :
                      msg.blocks[k].type = "text" /\ msg.blocks[k].kind = "text"
                          /\ Includes(msg.blocks[k].text, instruction)
          IN  IF msg.isString
              THEN IF Includes(msg.text, instruction)
                   THEN [data |-> msgs, value |-> FALSE]
                   ELSE [data |-> [msgs EXCEPT ![i].text = @ \o Separator \o instruction],
                         value |-> TRUE]
              ELSE IF ~msg.isArray
                   THEN [data |-> msgs, value |-> TRUE]
              ELSE IF alreadyInjected
                   THEN [data |-> msgs, value |-> FALSE]
                   ELSE [data |-> [msgs EXCEPT ![i].blocks =
                                      Append(@, TextBlock(instruction, "text"))],
                         value |-> TRUE]

\* the pieces a request body is drawn from: messages with a string content,
\* and blocks of the messages with an array content
Items ==
    {StringMessage("user", <<"hi">>), StringMessage("user", NudgeText),
     StringMessage("user", <<"hi">> \o Instruction), StringMessage("assistant", <<"ok">>)}
    \cup {ArrayMessage("user", <<b>>) :
            b \in {TextBlock(<<"hi">>, Undefined), TextBlock(Instruction, Undefined),
                   TextBlock(Instruction, "text"), CachePointBlock,
                   ToolResultBlock("CALL_1", <<"out_a">>, "success"),
                   ToolResultBlock("call_1", <<"out_b">>, "error"),
                   ToolResultBlock("call_2", <<"out_a">>, "success")}}
    \cup {ArrayMessage("assistant", <<b>>) :
            b \in {TextBlock(<<"ok">>, Undefined),
                   ToolUseBlock("CALL_1", "read", "in_a"),
                   ToolUseBlock("call_1", "bash", "in_b"),
                   ToolUseBlock("call_2", "read", "in_a"),
                   ToolUseBlock("", "read", "in_a")}}

\* the messages of a body: the items one message each, or the blocks of
\* neighbouring items of one role gathered in one message
RECURSIVE Gather(_, _)
Gather(acc, items) ==
    IF items = <<>> THEN acc
    ELSE LET it == Head(items)
             last == acc[Len(acc)]
         IN  IF acc # <<>> /\ it.isArray /\ last.isArray /\ last.role = it.role
             THEN Gather([acc EXCEPT ![Len(acc)].blocks = @ \o it.blocks], Tail(items))
             ELSE Gather(Append(acc, it), Tail(items))

MkBody(items, gathered, system, inferenceConfig) ==
    [system |-> system, inferenceConfig |-> inferenceConfig,
     messages |-> IF gathered THEN Gather(<<>>, items) ELSE items]

\* the metadata an earlier request has left in state.toolParameters
PriorToolParameters ==
    {<<>>, [k \in {"call_2"} |-> [tool |-> "bash", parameters |-> "in_b",
                                 status |-> Undefined]]}

\* the placeholder the caller passes as prunedMessage
PrunedMessage == "[pruned]"

\* bedrockFormat.replaceToolOutput(data, toolId, prunedMessage, state)
BedrockReplaceToolOutput ==
    \E toolId \in WireIds :
        LET r == ReplaceToolOutput(GetDataArray(body), toolId, PrunedMessage)
        IN  /\ body' = [body EXCEPT !.messages = r.data]
            /\ ret' = [op |-> "replaceToolOutput", arg |-> toolId, value |-> r.replaced,
                   count |-> 0]
            /\ UNCHANGED <<toolParameters, tracker, janitorVars, mutatorVars, strategyVars>>

\* bedrockFormat.cacheToolParameters(data, state, logger)
BedrockCacheToolParameters ==
    /\ toolParameters' = CacheToolParameters(GetDataArray(body), toolParameters)
    /\ ret' = [op |-> "cacheToolParameters", arg |-> "", value |-> FALSE,
                   count |-> 0]
    /\ UNCHANGED <<body, tracker, janitorVars, mutatorVars, strategyVars>>

\* bedrockFormat.injectSynth(data, instruction, nudgeText)
BedrockInjectSynth ==
    LET r == InjectSynth(GetDataArray(body), Instruction, NudgeText)
    IN  /\ body' = [body EXCEPT !.messages = r.data]
        /\ ret' = [op |-> "injectSynth", arg |-> "", value |-> r.value,
                   count |-> 0]
        /\ UNCHANGED <<toolParameters, tracker, janitorVars, mutatorVars, strategyVars>>

\* a request with an inferenceConfig, with and without a system array
InitWire ==
    /\ state = [s \in Sessions |-> NoEntry]
    /\ history = [s \in Sessions |-> <<>>]
    /\ janitor = [r \in Runs |-> NotStarted]
    /\ MutatorIdle
    /\ \E n \in 0..MaxItems : \E items \in [1..n -> Items] :
       \E gathered, system \in BOOLEAN :
          body = MkBody(items, gathered, system, TRUE)
    /\ toolParameters \in PriorToolParameters
    /\ ret = NoCall
    /\ tracker = NoTracker
    /\ StrategyIdle

NextWire ==
    \/ BedrockReplaceToolOutput
    \/ BedrockCacheToolParameters
    \/ BedrockInjectSynth

SpecWire == InitWire /\ [][NextWire]_vars

\* lines 84-88: the array after the call, and the value returned
InjectPrunableList(msgs, injection) ==
    IF injection = <<>> THEN [data |-> msgs, value |-> FALSE]
    ELSE [data |-> Append(msgs, StringMessage("user", injection)), value |-> TRUE]

\* lines 158-178: the toolResult blocks with a toolUseId of the user messages
\* whose content is an array, as {id, toolName}
RECURSIVE ExtractToolOutputs(_, _)
ExtractToolOutputs(data, map) ==
    IF data = <<>> THEN <<>>
    ELSE (IF Head(data).role = "user" /\ Head(data).isArray
          THEN LET results == SelectSeq(Head(data).blocks,
                                  LAMBDA b : b.kind = "toolResult" /\ b.toolUseId # "")
               IN  [k \in 1..Len(results) |->
                       LET toolUseId == ToLowerCase(results[k].toolUseId)
                       IN  [id |-> toolUseId,
                            toolName |-> IF toolUseId \in DOMAIN map
                                         THEN map[toolUseId].tool ELSE Undefined]]
          ELSE <<>>)
         \o ExtractToolOutputs(Tail(data), map)

\* lines 214-223
HasToolOutputs(data) ==
    \E i \in 1..Len(data) :
        /\ data[i].role = "user" /\ data[i].isArray
        /\ \E k \in 1..Len(data[i].blocks) : data[i].blocks[k].kind = "toolResult"

\* the handler's loop over the listed tool outputs (design note, lines
\* 193-198): replaceToolOutput for each one that is in the pruned set
RECURSIVE ReplacePrunedOutputs(_, _, _)
ReplacePrunedOutputs(data, outputs, allPrunedIds) ==
    IF outputs = <<>> THEN data
    ELSE ReplacePrunedOutputs(
             IF Head(outputs).id \in allPrunedIds
             THEN ReplaceToolOutput(data, Head(outputs).id, PrunedMessage).data
             ELSE data,
             Tail(outputs), allPrunedIds)

\* the text of the prunable-tools list that is injected
PrunableList == <<"p1">>

\* the rewrite steps of one request: the replacements, then the two injections
Rewrite(data, map, allPrunedIds) ==
    LET replaced == ReplacePrunedOutputs(data, ExtractToolOutputs(data, map), allPrunedIds)
        withSynth == InjectSynth(replaced, Instruction, NudgeText).data
    IN  InjectPrunableList(withSynth, PrunableList).data

\* the rewrite steps are applied to the body of the request of session s1
RewritePass ==
    /\ Len(GetDataArray(body)) < MaxItems + MaxPasses
    /\ body' = [body EXCEPT !.messages =
                   Rewrite(GetDataArray(body), toolParameters,
                           Range(StateManagerGet(state, "s1")))]
    /\ ret' = [op |-> "rewrite", arg |-> "", value |-> TRUE, count |-> 0]
    /\ UNCHANGED <<toolParameters, tracker, janitorVars, mutatorVars, strategyVars>>

\* bedrockFormat.injectPrunableList(data, injection)
BedrockInjectPrunableList ==
    /\ Len(GetDataArray(body)) < MaxItems + MaxPasses
    /\ \E injection \in {<<>>, PrunableList} :
         LET r == InjectPrunableList(GetDataArray(body), injection)
         IN  /\ body' = [body EXCEPT !.messages = r.data]
             /\ ret' = [op |-> "injectPrunableList", arg |-> "", value |-> r.value,
                        count |-> 0]
    /\ UNCHANGED <<toolParameters, tracker, janitorVars, mutatorVars, strategyVars>>

\* the methods of the bedrockFormat object (lines 105-233)
BedrockMethods ==
    {"detect", "getDataArray", "cacheToolParameters", "injectSynth",
     "trackNewToolResults", "injectPrunableList", "extractToolOutputs",
     "replaceToolOutput", "hasToolOutputs", "getLogMetadata"}

\* the placeholder the caller passes as replacement
PrunedInput == "[input pruned]"

\* the handler's call format.replaceToolInput(data, toolCallId, replacement,
\* state) (design note, lines 200-203) on bedrockFormat: the object has no such
\* method, the call throws a TypeError and the array is as it was
BedrockReplaceToolInput ==
    /\ "replaceToolInput" \notin BedrockMethods
    /\ \E toolCallId \in WireIds :
         ret' = [op |-> "replaceToolInput", arg |-> toolCallId, value |-> FALSE,
                 count |-> 0]
    /\ UNCHANGED <<body, toolParameters, tracker, janitorVars, mutatorVars, strategyVars>>

\* tracker.getToolName?.(id): the name cached for the identifier, if any
GetToolName(map, id) ==
    IF ToLowerCase(id) \in DOMAIN map THEN map[ToLowerCase(id)].tool ELSE Undefined

\* the counting without the test of seenToolResultIds
TrackIdCountsAgain(acc, id, map, protectedTools) ==
    LET toolName == GetToolName(map, id)
        counted == toolName = Undefined \/ toolName \notin protectedTools
    IN  [tracker |->
            [seenToolResultIds |-> acc.tracker.seenToolResultIds \cup {id},
             toolResultCount |-> acc.tracker.toolResultCount
                                   + (IF counted THEN 1 ELSE 0)],
         newCount |-> acc.newCount + (IF counted THEN 1 ELSE 0)]

\* lines 58-65 and 69-76: one identifier of a tool result
TrackId(acc, id, map, protectedTools) ==
    IF id \in acc.tracker.seenToolResultIds THEN acc
    ELSE LET toolName == GetToolName(map, id)
             counted == toolName = Undefined \/ toolName \notin protectedTools
         IN  [tracker |->
                 [seenToolResultIds |-> acc.tracker.seenToolResultIds \cup {id},
                  toolResultCount |-> acc.tracker.toolResultCount
                                        + (IF counted THEN 1 ELSE 0)],
              newCount |-> acc.newCount + (IF counted THEN 1 ELSE 0)]

RECURSIVE TrackIds(_, _, _, _)
TrackIds(acc, ids, map, protectedTools) ==
    IF ids = <<>> THEN acc
    ELSE TrackIds(TrackId(acc, Head(ids), map, protectedTools), Tail(ids), map,
                  protectedTools)

\* lines 57 and 66-68: the identifiers of the tool results the loop sees in a
\* message: the tool_call_id of a tool message, the tool_use_id of the
\* tool_result parts of a user message
TrackedIds(m) ==
    IF m.role = "tool" /\ m.tool_call_id # "" THEN <<m.tool_call_id>>
    ELSE IF m.role = "user" /\ m.isArray
    THEN LET parts == SelectSeq(m.blocks,
                          LAMBDA part : part.type = "tool_result"
                                        /\ ToolUseIdOfPart(part) # "")
         IN  [k \in 1..Len(parts) |-> ToolUseIdOfPart(parts[k])]
    ELSE <<>>

RECURSIVE AllTrackedIds(_)
AllTrackedIds(msgs) ==
    IF msgs = <<>> THEN <<>> ELSE TrackedIds(Head(msgs)) \o AllTrackedIds(Tail(msgs))

\* lines 54-82: the tracker after the call, and the number returned
TrackNewToolResults(msgs, trk, map, protectedTools) ==
    TrackIds([tracker |-> trk, newCount |-> 0], AllTrackedIds(msgs), map, protectedTools)

\* the protected tool of a call: none ("") or read
ProtectedChoices == {"", "read"}

\* bedrockFormat.trackNewToolResults(data, tracker, protectedTools)
BedrockTrackNewToolResults ==
    \E p \in ProtectedChoices :
        LET r == TrackNewToolResults(GetDataArray(body), tracker, toolParameters,
                                     {p} \ {""})
        IN  /\ tracker' = r.tracker
            /\ ret' = [op |-> "trackNewToolResults", arg |-> p, value |-> FALSE,
                       count |-> r.newCount]
            /\ UNCHANGED <<body, toolParameters, janitorVars, mutatorVars, strategyVars>>

\* the pieces of the sequences the tracker is run on: Converse tool results
\* and text, and the tool results of the two other formats
TrackItems ==
    {ArrayMessage("user", <<b>>) :
        b \in {TextBlock(<<"hi">>, Undefined),
               ToolResultBlock("CALL_1", <<"out_a">>, "success"),
               ToolResultBlock("call_2", <<"out_a">>, "success"),
               ToolResultPart("call_1", <<"out_a">>)}}
    \cup {ToolMessage("call_2", <<"out_a">>),
          ArrayMessage("assistant", <<ToolUseBlock("call_2", "read", "in_a")>>)}

\* the tool names an earlier scan has cached
TrackToolParameters ==
    {<<>>, [k \in {"call_1", "call_2"} |->
               [tool |-> "read", parameters |-> "in_a", status |-> Undefined]]}

InitTrack ==
    /\ state = [s \in Sessions |-> NoEntry]
    /\ history = [s \in Sessions |-> <<>>]
    /\ janitor = [r \in Runs |-> NotStarted]
    /\ MutatorIdle
    /\ \E n \in 0..MaxItems : \E items \in [1..n -> TrackItems] : \E gathered \in BOOLEAN :
          body = MkBody(items, gathered, TRUE, TRUE)
    /\ toolParameters \in TrackToolParameters
    /\ ret = NoCall
    /\ tracker \in {NoTracker, [seenToolResultIds |-> {"call_1"}, toolResultCount |-> 1]}
    /\ StrategyIdle

NextTrack == BedrockTrackNewToolResults

SpecTrack == InitTrack /\ [][NextTrack]_vars

\* the pruned sets of session s1 that the rewrite reads
WirePruned == {<<>>, <<"call_1">>, <<"call_1", "call_2">>}

\* a body that detect accepts, and the pruned set of its session
InitRewrite ==
    /\ \E prior \in WirePruned :
          state = [s \in Sessions |->
                     IF s = "s1" /\ prior # <<>>
                     THEN [present |-> TRUE, prunedIds |-> prior,
                           lastPruneCount |-> Len(prior)]
                     ELSE NoEntry]
    /\ history = [s \in Sessions |-> <<>>]
    /\ janitor = [r \in Runs |-> NotStarted]
    /\ MutatorIdle
    /\ \E n \in 0..MaxItems : \E items \in [1..n -> Items] : \E gathered \in BOOLEAN :
          body = MkBody(items, gathered, TRUE, TRUE)
    /\ toolParameters = <<>>
    /\ ret = NoCall
    /\ tracker = NoTracker
    /\ StrategyIdle

NextRewrite ==
    \/ RewritePass
    \/ BedrockInjectPrunableList
    \/ BedrockReplaceToolInput

SpecRewrite == InitRewrite /\ [][NextRewrite]_vars

\* bedrockFormat.hasToolOutputs(data)
BedrockHasToolOutputs ==
    /\ ret' = [op |-> "hasToolOutputs", arg |-> "",
               value |-> HasToolOutputs(GetDataArray(body)), count |-> 0]
    /\ UNCHANGED <<body, toolParameters, tracker, janitorVars, mutatorVars, strategyVars>>

\* bedrockFormat.extractToolOutputs(data, state): count is the length of the
\* list returned
BedrockExtractToolOutputs ==
    /\ ret' = [op |-> "extractToolOutputs", arg |-> "", value |-> FALSE,
               count |-> Len(ExtractToolOutputs(GetDataArray(body), toolParameters))]
    /\ UNCHANGED <<body, toolParameters, tracker, janitorVars, mutatorVars, strategyVars>>

\* the pieces of the sequences the two methods are run on: user blocks with
\* and without a toolResult, a toolResult without a toolUseId, and messages
\* the loops pass over
OutputItems ==
    {ArrayMessage("user", <<b>>) :
        b \in {TextBlock(<<"hi">>, Undefined), CachePointBlock,
               ToolResultBlock("CALL_1", <<"out_a">>, "success"),
               ToolResultBlock("call_2", <<"out_b">>, "error"),
               ToolResultBlock("", <<"out_a">>, "success")}}
    \cup {StringMessage("user", <<"hi">>),
          ArrayMessage("assistant", <<ToolUseBlock("call_2", "read", "in_a")>>),
          ArrayMessage("assistant", <<ToolResultBlock("call_2", <<"out_a">>, "success")>>)}

InitOutputs ==
    /\ state = [s \in Sessions |-> NoEntry]
    /\ history = [s \in Sessions |-> <<>>]
    /\ janitor = [r \in Runs |-> NotStarted]
    /\ MutatorIdle
    /\ \E n \in 0..MaxItems : \E items \in [1..n -> OutputItems] :
       \E gathered \in BOOLEAN :
          body = MkBody(items, gathered, TRUE, TRUE)
    /\ toolParameters \in TrackToolParameters
    /\ ret = NoCall
    /\ tracker = NoTracker
    /\ StrategyIdle

NextOutputs == BedrockHasToolOutputs \/ BedrockExtractToolOutputs

SpecOutputs == InitOutputs /\ [][NextOutputs]_vars

\* the pieces of the sequences injectSynth is run on: user messages of the
\* three content shapes, a nudge and an assistant message
SynthItems ==
    {StringMessage("user", <<"hi">>), StringMessage("user", NudgeText),
     StringMessage("user", <<"hi">> \o Instruction), StringMessage("assistant", <<"ok">>),
     OtherMessage("user"), OtherMessage("assistant")}
    \cup {ArrayMessage("user", <<b>>) :
            b \in {TextBlock(<<"hi">>, Undefined), TextBlock(<<"hi">>, "text"),
                   TextBlock(Instruction, Undefined), TextBlock(Instruction, "text"),
                   ToolResultBlock("call_1", <<"out_a">>, "success")}}

InitSynth ==
    /\ state = [s \in Sessions |-> NoEntry]
    /\ history = [s \in Sessions |-> <<>>]
    /\ janitor = [r \in Runs |-> NotStarted]
    /\ MutatorIdle
    /\ \E n \in 0..MaxItems : \E items \in [1..n -> SynthItems] :
       \E gathered \in BOOLEAN :
          body = MkBody(items, gathered, TRUE, TRUE)
    /\ toolParameters = <<>>
    /\ ret = NoCall
    /\ tracker = NoTracker
    /\ StrategyIdle

NextSynth == BedrockInjectSynth

SpecSynth == InitSynth /\ [][NextSynth]_vars

(* ------------- notes/error-input-pruning-research.md: detect ----------- *)

\* config.minAge ?? 5
DefaultMinAge == 5

\* Array.prototype.slice(0, end): a negative end counts from the end of the
\* list, and -0 is 0
SliceTo(seq, end) ==
    LET len == Len(seq)
        k == IF end < 0
             THEN (IF len + end < 0 THEN 0 ELSE len + end)
             ELSE (IF end > len THEN len ELSE end)
    IN  SubSeq(seq, 1, k)

\* the loop of detect over pruneableIds
RECURSIVE DetectErrors(_, _, _)
DetectErrors(pruneableIds, toolMetadata, protectedTools) ==
    IF pruneableIds = <<>> THEN <<>>
    ELSE LET id == Head(pruneableIds)
             rest == DetectErrors(Tail(pruneableIds), toolMetadata, protectedTools)
         IN  IF id \notin DOMAIN toolMetadata THEN rest
             ELSE IF ToLowerCase(toolMetadata[id].tool) \in Range(protectedTools)
             THEN rest
             ELSE IF toolMetadata[id].hasError THEN <<id>> \o rest
             ELSE rest

\* errorPruningStrategy.detect
ErrorPruningDetect(toolMetadata, unprunedIds, protectedTools, config) ==
    LET recentN == IF config.hasMinAge THEN config.minAge ELSE DefaultMinAge
        pruneableIds == SliceTo(unprunedIds, 0 - recentN)
    IN  DetectErrors(pruneableIds, toolMetadata, protectedTools)

\* the identifiers of a session's tool calls, oldest first
ObservedIds == <<"t1", "t2", "t3", "t4", "t5", "t6", "t7", "t8">>

\* what the metadata map holds for an identifier, if anything
MetaChoices ==
    {[present |-> FALSE, tool |-> "", hasError |-> FALSE],
     [present |-> TRUE, tool |-> "bash", hasError |-> TRUE],
     [present |-> TRUE, tool |-> "Bash", hasError |-> TRUE],
     [present |-> TRUE, tool |-> "bash", hasError |-> FALSE]}

\* the configured lists of protected tool names
ProtectedLists == {<<>>, <<"bash">>, <<"Bash">>}

\* the strategy is called once on its arguments
StrategyDetect ==
    /\ ~strategy.called
    /\ strategy' = [strategy EXCEPT
                      !.prunedIds = ErrorPruningDetect(strategy.toolMetadata,
                                        strategy.unprunedIds,
                                        strategy.protectedTools, strategy.config),
                      !.called = TRUE]
    /\ UNCHANGED <<janitorVars, mutatorVars, descriptorVars>>

InitStrategy ==
    /\ state = [s \in Sessions |-> NoEntry]
    /\ history = [s \in Sessions |-> <<>>]
    /\ janitor = [r \in Runs |-> NotStarted]
    /\ MutatorIdle
    /\ DescriptorIdle
    /\ \E n \in 0..(IF MaxCalls < Len(ObservedIds) THEN MaxCalls ELSE Len(ObservedIds)) :
       \E f \in [1..n -> MetaChoices] :
       \E protectedTools \in ProtectedLists :
       \E hasMinAge \in BOOLEAN :
       \E minAge \in 0..MaxAge :
          /\ hasMinAge \/ minAge = 0
          /\ strategy =
               [toolMetadata |->
                    [id \in {ObservedIds[i] : i \in {x \in 1..n : f[x].present}} |->
                        LET i == CHOOSE x \in 1..n : ObservedIds[x] = id
                        IN  [tool |-> f[i].tool, hasError |-> f[i].hasError]],
                unprunedIds |-> SubSeq(ObservedIds, 1, n),
                protectedTools |-> protectedTools,
                config |-> [hasMinAge |-> hasMinAge, minAge |-> minAge],
                prunedIds |-> <<>>,
                called |-> FALSE]

NextStrategy == StrategyDetect

SpecStrategy == InitStrategy /\ [][NextStrategy]_vars

(* ------------------------------ claims --------------------------------- *)

PrunedSet(st, sessionID) == Range(StateManagerGet(st, sessionID))

InFlight(r) == janitor[r].pc \notin {"idle", "done"}

\* the tool parts of a message list, in order
RECURSIVE FlattenTools(_)
FlattenTools(msgs) ==
    IF msgs = <<>> THEN <<>>
    ELSE SelectSeq(Head(msgs).parts, LAMBDA p : p.type = "tool" /\ p.callID # "")
         \o FlattenTools(Tail(msgs))

HistoryToolIds(msgs) == {p.callID : p \in Range(FlattenTools(msgs))}

\* a child: a parallel (prt_) tool call, which is never a batch call
IsChildPart(p) == StartsWithPrt(p.callID)

\* the children of the batch call at position i of the tool parts: the calls
\* that follow it contiguously, up to the first call that is no child
ChildrenAt(stream, i) ==
    {stream[k].callID : k \in {k \in (i + 1)..Len(stream) :
                                  \A m \in (i + 1)..k : IsChildPart(stream[m])}}

BatchPositions(stream, id) ==
    {i \in 1..Len(stream) : stream[i].callID = id /\ stream[i].tool = "batch"}

\* C1: apart from clear, no step removes an identifier from the pruned set that
\* get returns for a session.
C1_PrunedSetNeverShrinks ==
    [][(~ \E s \in Sessions : Clear(s)) =>
         \A s \in Sessions : PrunedSet(state, s) \subseteq PrunedSet(state', s)]_vars

\* C2: the commit of a run keeps every identifier that is in the session's
\* pruned set at commit time, whoever added it since the run's snapshot.
C2_CommitMergesIntoCurrentSet ==
    [][\A r \in Runs :
         (janitor[r].pc = "oracle" /\ janitor'[r].pc = "set") =>
             PrunedSet(state, janitor[r].sessionID)
                 \subseteq PrunedSet(state', janitor[r].sessionID)]_vars

\* C3: no two runs for the same session are in flight at the same time.
C3_OneRunPerSession ==
    \A r, q \in Runs :
        (r # q /\ InFlight(r) /\ InFlight(q)) =>
            janitor[r].sessionID # janitor[q].sessionID

\* C4: a run whose oracle call fails ends there without a call of set or
\* showToast, and no step of a run that has not called set changes the store.
C4_OracleFailureLeavesStore ==
    [][\A r \in Runs :
         /\ (janitor[r].pc = "oracle" /\ janitor'[r].pc = "done") =>
                /\ state' = state
                /\ janitor'[r].outcome = "failed"
                /\ janitor'[r].calls \cap {"set", "toast"} = {}
                /\ janitor'[r].toast = "none"
         /\ (janitor'[r] # janitor[r] /\ "set" \notin janitor'[r].calls) =>
                state' = state]_vars

W4_OracleFailed ==
    \E r \in Runs :
        /\ janitor[r].outcome = "failed"
        /\ "oracle" \in janitor[r].calls
        /\ PrunedSet(state, janitor[r].sessionID) # {}

\* C5: the promise of a run never rejects, a run that has ended has its promise
\* resolved, and every started run ends, whichever of its calls fails.
C5_RunAlwaysResolves ==
    /\ [](\A r \in Runs : janitor[r].settled # "rejected")
    /\ [](\A r \in Runs : janitor[r].pc = "done" => janitor[r].settled = "resolved")
    /\ <>[](\A r \in Runs : ~InFlight(r))

W5_FailedRunResolved ==
    /\ \E r \in Runs : janitor[r].outcome = "failed" /\ janitor[r].settled = "resolved"
    /\ \E r \in Runs : janitor[r].toast = "failed" /\ janitor[r].settled = "resolved"

\* C6: a run that fetched fewer than MinMessages messages, or whose history has
\* no tool call identifier outside the pruned set it read, returns at once: no
\* oracle call, no write, no notification, and the outcome is not the error one.
C6_NothingToDoReturnsWithoutEffect ==
    [][\A r \in Runs :
         LET j == janitor[r]
             k == janitor'[r]
             skips == /\ k.pc = "done"
                      /\ k.settled = "resolved"
                      /\ k.outcome \in {"too_few", "no_unpruned"}
                      /\ k.calls = {}
                      /\ k.toast = "none"
                      /\ state' = state
         IN  /\ (j.pc = "messages" /\ k # j /\ k.outcome # "failed"
                    /\ Len(history[j.sessionID]) < MinMessages) => skips
             /\ (j.pc = "get" /\ k # j
                    /\ HistoryToolIds(history[j.sessionID])
                           \subseteq Range(j.alreadyPrunedIds)) => skips]_vars

\* a run found every tool call of its history pruned already and returned
W6_SkippedRun ==
    \E r \in Runs :
        /\ janitor[r].outcome = "no_unpruned"
        /\ janitor[r].messageCount >= MinMessages
        /\ HistoryToolIds(history[janitor[r].sessionID]) # {}
        /\ HistoryToolIds(history[janitor[r].sessionID])
               \subseteq PrunedSet(state, janitor[r].sessionID)

\* C7: after a commit, every child of every batch call the oracle named is in
\* the committed set, and whatever the expansion added to the oracle's list is
\* a child of a batch call the oracle named.
C7_BatchExpansion ==
    \A r \in Runs :
        LET j == janitor[r]
            stream == FlattenTools(history[j.sessionID])
            named == {ChildrenAt(stream, i) :
                         i \in UNION {BatchPositions(stream, b) : b \in Range(j.oracleIds)}}
        IN  j.pc \in {"set", "toast"} =>
              /\ UNION named \subseteq Range(j.allPrunedIds)
              /\ Range(j.allPrunedIds) = PrunedSet(state, j.sessionID)
              /\ Range(j.finalPrunedIds) \ Range(j.oracleIds) \subseteq UNION named

\* the oracle named one of two batch calls that have a child each, and the
\* child of the named one went into the store
W7_BatchNamed ==
    \E r \in Runs :
        LET j == janitor[r]
        IN  /\ j.pc = "set"
            /\ Cardinality(DOMAIN j.batchToolChildren) = 2
            /\ \A b \in DOMAIN j.batchToolChildren : j.batchToolChildren[b] # <<>>
            /\ \E b \in DOMAIN j.batchToolChildren :
                   /\ j.oracleIds = <<b>>
                   /\ Range(j.batchToolChildren[b]) \subseteq PrunedSet(state, j.sessionID)

\* C8: after a commit, every member of the pruned set is the identifier of a
\* tool call of the session's history or was in the set before the run.
C8_UnknownIdsIgnored ==
    \A r \in Runs :
        LET j == janitor[r]
        IN  j.pc = "set" =>
              PrunedSet(state, j.sessionID) \subseteq
                  HistoryToolIds(history[j.sessionID]) \cup Range(j.alreadyPrunedIds)

\* C9: a failing showToast ends the run normally and leaves the store as the
\* commit left it.
C9_ToastFailureKeepsCommit ==
    [][\A r \in Runs :
         (janitor[r].pc = "toast" /\ janitor'[r].pc = "done"
              /\ janitor'[r].toast # "shown") =>
             /\ state' = state
             /\ janitor'[r].settled = "resolved"
             /\ janitor'[r].outcome = "pruned"
             /\ janitor'[r].toast = "failed"
             /\ "set" \in janitor'[r].calls]_vars

W9_ToastFailedAfterCommit ==
    \E r \in Runs :
        /\ janitor[r].toast = "failed"
        /\ janitor[r].pc = "done"
        /\ PrunedSet(state, janitor[r].sessionID) # {}

\* the positions <<message, part>> of a message list
Positions(msgs) ==
    UNION {{<<i, k>> : k \in 1..Len(msgs[i].parts)} : i \in 1..Len(msgs)}

SameShape(ms, ns) ==
    /\ Len(ms) = Len(ns)
    /\ \A i \in 1..Len(ms) : Len(ms[i].parts) = Len(ns[i].parts)

\* C10: after prune, every tool part of a message that is not compacted, with
\* its call identifier in the pruned set, status completed and a tool other
\* than write and edit, has the output placeholder as its output.
C10_CompletedOutputReplaced ==
    pruned =>
      /\ SameShape(original, messages)
      /\ \A pos \in Positions(original) :
           LET msg == original[pos[1]]
               part == msg.parts[pos[2]]
           IN  (/\ ~msg.compacted
                /\ part.type = "tool"
                /\ part.callID \in Range(toolIds)
                /\ part.status = "completed"
                /\ part.tool \notin {"write", "edit"}) =>
                   messages[pos[1]].parts[pos[2]].output = PRUNED_TOOL_OUTPUT_REPLACEMENT

W10_OutputReplaced ==
    /\ pruned
    /\ \E pos \in Positions(original) :
         LET msg == original[pos[1]]
             part == msg.parts[pos[2]]
         IN  /\ ~msg.compacted
             /\ part.type = "tool"
             /\ part.callID \in Range(toolIds)
             /\ part.status = "completed"
             /\ part.tool = "read"
             /\ part.output = "abcdef"
             /\ messages[pos[1]].parts[pos[2]].output = PRUNED_TOOL_OUTPUT_REPLACEMENT

\* the content-bearing input fields of the two edit tools
ContentFields(tool) ==
    CASE tool = "write" -> {"content"}
      [] tool = "edit"  -> {"oldString", "newString"}
      [] OTHER          -> {}

\* C11: after prune, a completed write or edit part of the pruned set (in a
\* message that is not compacted) has the input placeholder in each of its
\* content-bearing input fields that was present; its output, its other input
\* fields and its absent fields are as they were.
C11_EditToolInputFieldsReplaced ==
    pruned =>
      /\ SameShape(original, messages)
      /\ \A pos \in Positions(original) :
           LET msg == original[pos[1]]
               part == msg.parts[pos[2]]
               now == messages[pos[1]].parts[pos[2]]
           IN  (/\ ~msg.compacted
                /\ part.type = "tool"
                /\ part.callID \in Range(toolIds)
                /\ part.status = "completed"
                /\ part.tool \in {"write", "edit"}) =>
                   /\ now.output = part.output
                   /\ now.input.present = part.input.present
                   /\ \A f \in Fields :
                        now.input.fields[f] =
                            IF /\ f \in ContentFields(part.tool)
                               /\ part.input.present
                               /\ part.input.fields[f] # Undefined
                            THEN PRUNED_TOOL_INPUT_REPLACEMENT
                            ELSE part.input.fields[f]
                   /\ [now EXCEPT !.input = part.input] = part

\* a pruned edit with every field, and a pruned write without content
W11_EditFieldsReplaced ==
    /\ pruned
    /\ \E pos \in Positions(original) :
         LET part == original[pos[1]].parts[pos[2]]
             now == messages[pos[1]].parts[pos[2]]
         IN  /\ ~original[pos[1]].compacted
             /\ part.callID \in Range(toolIds)
             /\ part.status = "completed"
             /\ part.tool = "edit"
             /\ part.input = FullInput
             /\ now.input.fields["oldString"] = PRUNED_TOOL_INPUT_REPLACEMENT
             /\ now.input.fields["newString"] = PRUNED_TOOL_INPUT_REPLACEMENT
             /\ now.input.fields["content"] = "text"
             /\ now.input.fields["filePath"] = "a.ts"
    /\ \E pos \in Positions(original) :
         LET part == original[pos[1]].parts[pos[2]]
             now == messages[pos[1]].parts[pos[2]]
         IN  /\ ~original[pos[1]].compacted
             /\ part.callID \in Range(toolIds)
             /\ part.status = "completed"
             /\ part.tool = "write"
             /\ part.input = SparseInput
             /\ now.input.fields["content"] = Undefined

\* C12: after prune, every string-valued input field of every tool part with
\* status error of a message that is not compacted holds the failed-call
\* placeholder, whether the part's call identifier is in the pruned set or not.
C12_ErrorInputAlwaysReplaced ==
    pruned =>
      /\ SameShape(original, messages)
      /\ \A pos \in Positions(original) :
           LET msg == original[pos[1]]
               part == msg.parts[pos[2]]
               now == messages[pos[1]].parts[pos[2]]
           IN  (/\ ~msg.compacted
                /\ part.type = "tool"
                /\ part.status = "error"
                /\ part.input.present) =>
                   \A f \in Fields :
                       IsString(part.input.fields[f]) =>
                           now.input.fields[f] = PRUNED_TOOL_ERROR_INPUT_REPLACEMENT

\* C13: prune leaves every message that is marked as compacted as it was.
C13_CompactedMessageUntouched ==
    pruned =>
      /\ Len(messages) = Len(original)
      /\ \A i \in 1..Len(original) :
           original[i].compacted => messages[i] = original[i]

\* a compacted message with a pruned completed read next to a message that is
\* not compacted, whose part prune has rewritten
W13_CompactedSkipped ==
    /\ pruned
    /\ \E i \in 1..Len(original) :
         /\ original[i].compacted
         /\ \E k \in 1..Len(original[i].parts) :
              LET part == original[i].parts[k]
              IN  /\ part.type = "tool"
                  /\ part.callID \in Range(toolIds)
                  /\ part.status = "completed"
                  /\ part.tool = "read"
         /\ messages[i] = original[i]
    /\ \E i \in 1..Len(original) :
         ~original[i].compacted /\ messages[i] # original[i]

\* C14: a pass of prune over the messages of a session, made after a Janitor
\* run has committed an identifier for the session, leaves the output
\* placeholder in every completed part of that identifier whose tool is neither
\* write nor edit.
C14_MutatorSeesJanitorCommit ==
    [][(Prune /\ "set" \in janitor["r1"].calls) =>
         \A pos \in Positions(messages) :
             LET part == messages[pos[1]].parts[pos[2]]
             IN  (/\ ~messages[pos[1]].compacted
                  /\ part.type = "tool"
                  /\ part.callID \in PrunedSet(state, "s1")
                  /\ part.status = "completed"
                  /\ part.tool \notin {"write", "edit"}) =>
                     messages'[pos[1]].parts[pos[2]].output
                         = PRUNED_TOOL_OUTPUT_REPLACEMENT]_vars

\* the positions <<message, block>> of the blocks of a message array
BlockPositions(data) ==
    UNION {{<<i, k>> : k \in 1..Len(data[i].blocks)} : i \in 1..Len(data)}

Roles(data) == [i \in 1..Len(data) |-> data[i].role]

\* C15: a call of replaceToolOutput on the messages of a body that detect
\* accepts leaves a body that detect accepts, with as many messages, in the
\* same order, with the same roles.
C15_ReplaceKeepsBodyValid ==
    [][(BedrockReplaceToolOutput /\ Detect(body)) =>
          /\ Detect(body')
          /\ Len(body'.messages) = Len(body.messages)
          /\ Roles(body'.messages) = Roles(body.messages)]_vars

\* a body of two messages that detect accepts, after a replacement
W15_ReplacedInValidBody ==
    /\ ret.op = "replaceToolOutput"
    /\ ret.value
    /\ Detect(body)
    /\ Len(body.messages) = 2
    /\ Roles(body.messages) = <<"assistant", "user">>
    /\ \E pos \in BlockPositions(body.messages) :
           body.messages[pos[1]].blocks[pos[2]].content = <<PrunedMessage>>

\* C16: replaceToolOutput returns true exactly when the array has a toolResult
\* block whose toolUseId is the identifier up to letter case; then the content
\* of each such block is the one placeholder text and everything else (the
\* block's other fields, the other blocks, the order, the other messages) is
\* as it was; when it returns false the array is as it was.
C16_ReplaceToolOutputFrame ==
    [][BedrockReplaceToolOutput =>
         LET data == body.messages
             now == body'.messages
             matches(b) == b.kind = "toolResult"
                           /\ ToLowerCase(b.toolUseId) = ToLowerCase(ret'.arg)
             found == \E pos \in BlockPositions(data) : matches(data[pos[1]].blocks[pos[2]])
         IN  /\ ret'.value = found
             /\ ~found => now = data
             /\ Len(now) = Len(data)
             /\ \A i \in 1..Len(data) :
                    /\ [now[i] EXCEPT !.blocks = data[i].blocks] = data[i]
                    /\ Len(now[i].blocks) = Len(data[i].blocks)
             /\ \A pos \in BlockPositions(data) :
                    LET b == data[pos[1]].blocks[pos[2]]
                    IN  now[pos[1]].blocks[pos[2]] =
                            IF matches(b) THEN [b EXCEPT !.content = <<PrunedMessage>>]
                            ELSE b]_vars

\* a message with the result of call_1, replaced under the spelling CALL_1, next
\* to a result that was left alone
W16_ReplacedOneOfTwo ==
    /\ ret = [op |-> "replaceToolOutput", arg |-> "CALL_1", value |-> TRUE, count |-> 0]
    /\ \E i \in 1..Len(body.messages) :
         /\ Len(body.messages[i].blocks) = 2
         /\ \E k, l \in 1..2 :
              /\ body.messages[i].blocks[k] =
                     ToolResultBlock("call_1", <<PrunedMessage>>, "error")
              /\ body.messages[i].blocks[l] =
                     ToolResultBlock("call_2", <<"out_a">>, "success")

\* C17: identifiers are compared up to letter case everywhere: the candidate
\* list of a run has no spelling of an identifier that the pruned set it read
\* holds, and an identifier a run has committed is found in the pruned set
\* under its lowercase spelling, the one a descriptor lists.
C17_IdentifiersCaseInsensitive ==
    \A r \in Runs :
        LET j == janitor[r]
        IN  /\ j.pc = "oracle" =>
                  \A x \in Range(j.unprunedToolCallIds), y \in Range(j.alreadyPrunedIds) :
                      ToLowerCase(x) # ToLowerCase(y)
            /\ j.pc = "set" =>
                  \A x \in Range(j.finalPrunedIds) :
                      ToLowerCase(x) \in PrunedSet(state, j.sessionID)

\* the positions of the toolUse blocks of the assistant messages that carry
\* the identifier key in some spelling
UsePositions(data, key) ==
    {pos \in BlockPositions(data) :
        LET b == data[pos[1]].blocks[pos[2]]
        IN  /\ data[pos[1]].role = "assistant"
            /\ b.kind = "toolUse"
            /\ b.toolUseId # ""
            /\ ToLowerCase(b.toolUseId) = key}

UsedKeys(data) == {k \in {ToLowerCase(id) : id \in WireIds} : UsePositions(data, k) # {}}

Before(p, q) == p[1] < q[1] \/ (p[1] = q[1] /\ p[2] <= q[2])

\* C18: a scan by cacheToolParameters leaves one entry per lowercased
\* toolUseId of the assistant toolUse blocks, with the name and input of the
\* last such block of the sequence; the entries of other identifiers stay, a
\* second scan of the sequence changes nothing, and no key is removed.
C18_CacheLastWriteWins ==
    [][BedrockCacheToolParameters =>
         LET data == body.messages
         IN  /\ DOMAIN toolParameters' = DOMAIN toolParameters \cup UsedKeys(data)
             /\ \A k \in DOMAIN toolParameters \ UsedKeys(data) :
                    toolParameters'[k] = toolParameters[k]
             /\ \A k \in UsedKeys(data) :
                    LET last == CHOOSE p \in UsePositions(data, k) :
                                    \A q \in UsePositions(data, k) : Before(q, p)
                        b == data[last[1]].blocks[last[2]]
                    IN  /\ toolParameters'[k].tool = b.name
                        /\ toolParameters'[k].parameters = b.input
             /\ CacheToolParameters(data, toolParameters') = toolParameters']_vars

\* call_1 was invoked twice under two spellings, and the entry of call_2 comes
\* from an earlier request
W18_RepeatedIdentifierCached ==
    /\ ret.op = "cacheToolParameters"
    /\ Len(body.messages) = 1
    /\ body.messages[1].blocks =
           <<ToolUseBlock("CALL_1", "read", "in_a"), ToolUseBlock("call_1", "bash", "in_b")>>
    /\ DOMAIN toolParameters = {"call_1", "call_2"}
    /\ toolParameters["call_1"].tool = "bash"
    /\ toolParameters["call_1"].parameters = "in_b"

\* the status a toolResult block stands for
ResultStatus(b) == IF b.status = "error" THEN "error" ELSE "completed"

\* C19: after a scan by cacheToolParameters of a sequence with a tool
\* invocation and the result for the same identifier, the entry of the
\* identifier carries the status of the result.
C19_CacheRecordsStatus ==
    ret.op = "cacheToolParameters" =>
        \A k \in UsedKeys(body.messages) :
            \A pos \in BlockPositions(body.messages) :
                LET b == body.messages[pos[1]].blocks[pos[2]]
                IN  (/\ body.messages[pos[1]].role = "user"
                     /\ b.kind = "toolResult"
                     /\ ToLowerCase(b.toolUseId) = k) =>
                        toolParameters[k].status = ResultStatus(b)

\* the user messages that are no nudge
GenuineUserTurns(data) ==
    {i \in 1..Len(data) :
        data[i].role = "user" /\ ~(data[i].isString /\ data[i].text = NudgeText)}

\* the message holds the instruction verbatim, in its string or in a text block
ContainsInstruction(msg) ==
    IF msg.isString THEN Includes(msg.text, Instruction)
    ELSE \E k \in 1..Len(msg.blocks) :
             msg.blocks[k].kind = "text" /\ Includes(msg.blocks[k].text, Instruction)

\* C20: injectSynth adds the instruction to the last user message that is no
\* nudge and changes no other message; when that message holds the instruction
\* already, or when there is no such message, it changes nothing and returns
\* false.
C20_InjectSynthOnce ==
    [][BedrockInjectSynth =>
         LET data == body.messages
             now == body'.messages
             turns == GenuineUserTurns(data)
         IN  IF turns = {} THEN now = data /\ ~ret'.value
             ELSE LET i == CHOOSE k \in turns : \A m \in turns : m <= k
                  IN  IF ContainsInstruction(data[i])
                      THEN now = data /\ ~ret'.value
                      ELSE /\ ret'.value
                           /\ Len(now) = Len(data)
                           /\ \A m \in 1..Len(data) : m # i => now[m] = data[m]
                           /\ now[i] # data[i]
                           /\ ContainsInstruction(now[i])]_vars

\* C21: the rewrite steps applied to a body they have just been applied to,
\* with the same pruned set and the same texts, leave the body as it is.
C21_RewriteIdempotent ==
    [][(RewritePass /\ ret.op = "rewrite") => body' = body]_vars

\* C22: replaceToolInput on the Converse descriptor returns whether the
\* sequence has an assistant invocation with the identifier, and then the
\* input of that invocation is the placeholder.
C22_ReplaceToolInputProvided ==
    ret.op = "replaceToolInput" =>
        LET found == UsePositions(body.messages, ToLowerCase(ret.arg))
        IN  /\ ret.value = (found # {})
            /\ \A pos \in found :
                   body.messages[pos[1]].blocks[pos[2]].input = PrunedInput

\* a sequence of Converse messages: user and assistant roles, blocks without
\* a type
IsConverse(data) ==
    \A i \in 1..Len(data) :
        /\ data[i].role \in {"user", "assistant"}
        /\ \A k \in 1..Len(data[i].blocks) : data[i].blocks[k].type = Undefined

\* C30: on a Converse sequence trackNewToolResults returns the number of the
\* identifiers extractToolOutputs lists that the tracker had not seen and
\* whose tool is not protected.
C30_TrackCountsConverseResults ==
    [][(BedrockTrackNewToolResults /\ IsConverse(body.messages)) =>
         ret'.count =
             Cardinality({o.id : o \in
                 {o \in Range(ExtractToolOutputs(body.messages, toolParameters)) :
                     /\ o.id \notin tracker.seenToolResultIds
                     /\ (o.toolName = Undefined \/ o.toolName \notin {ret'.arg})}})]_vars

\* C23: a step changes what get and getLastPruneCount return for one session
\* at most, and only if it is clear or resetLastPruneCount for that session or
\* a step of a Janitor run on that session.
C23_SessionsIsolated ==
    [][LET changed(b) ==
               \/ StateManagerGet(state', b) # StateManagerGet(state, b)
               \/ StateManagerGetLastPruneCount(state', b)
                      # StateManagerGetLastPruneCount(state, b)
       IN  /\ \A a, b \in Sessions : (changed(a) /\ changed(b)) => a = b
           /\ \A b \in Sessions :
                  changed(b) =>
                      \/ Clear(b)
                      \/ ResetLastPruneCount(b)
                      \/ \E r \in Runs :
                             janitor[r].sessionID = b /\ janitor'[r] # janitor[r]]_vars

\* the two sessions hold different pruned sets, each written by its own run
W23_TwoSessionsDiffer ==
    /\ \E r, q \in Runs :
          /\ janitor[r].sessionID = "s1" /\ janitor[r].outcome = "pruned"
          /\ janitor[q].sessionID = "s2" /\ janitor[q].outcome = "pruned"
    /\ PrunedSet(state, "s1") # {}
    /\ PrunedSet(state, "s2") # {}
    /\ PrunedSet(state, "s1") # PrunedSet(state, "s2")

\* the total length of the cached outputs of a set of identifiers
RECURSIVE SumOutputLengths(_, _)
SumOutputLengths(ids, toolOutputs) ==
    IF ids = {} THEN 0
    ELSE LET id == CHOOSE x \in ids : TRUE
         IN  (IF id \in DOMAIN toolOutputs THEN OutputLength(toolOutputs[id]) ELSE 0)
             + SumOutputLengths(ids \ {id}, toolOutputs)

\* C27: the token savings of a run are round(C / 4), C being the total length
\* of the cached outputs of the identifiers the run has added to the pruned
\* set it read; an identifier of that set adds nothing.
C27_SavingsCountNewIdsOnly ==
    \A r \in Runs :
        LET j == janitor[r]
        IN  j.pc \in {"set", "toast"} =>
              j.estimatedTokensSaved =
                  RoundDiv4(SumOutputLengths(
                      Range(j.allPrunedIds) \ Range(j.alreadyPrunedIds), j.toolOutputs))

\* C28: when the oracle names a child of a batch call and not the batch call,
\* the named child is committed, the batch call is not added, and a child of
\* it is added only if the oracle names that child.
C28_NoExpansionFromChild ==
    \A r \in Runs :
        LET j == janitor[r]
        IN  j.pc \in {"set", "toast"} =>
              \A b \in DOMAIN j.batchToolChildren \ Range(j.oracleIds) :
                  /\ b \notin Range(j.finalPrunedIds)
                  /\ \A c \in Range(j.batchToolChildren[b]) :
                         /\ c \in Range(j.finalPrunedIds) <=> c \in Range(j.oracleIds)
                         /\ c \in Range(j.oracleIds) => c \in PrunedSet(state, j.sessionID)

\* the oracle named one of the two children of a batch call, and the store
\* holds that child alone
W28_ChildNamedAlone ==
    \E r \in Runs :
        LET j == janitor[r]
        IN  /\ j.pc = "set"
            /\ \E b \in DOMAIN j.batchToolChildren :
                   /\ Len(j.batchToolChildren[b]) = 2
                   /\ j.oracleIds = <<j.batchToolChildren[b][1]>>
                   /\ PrunedSet(state, j.sessionID) = {j.batchToolChildren[b][1]}

\* C29: a run notifies at most once, after its commit and only for a
\* non-empty expanded list; a run whose oracle result is empty notifies
\* nobody, and its commit leaves the pruned set of the session as it was.
C29_OneToastAfterNonEmptyCommit ==
    [][\A r \in Runs :
         LET j == janitor[r]
             k == janitor'[r]
         IN  /\ k.toast # j.toast =>
                    /\ j.pc = "toast"
                    /\ j.toast = "none"
                    /\ "set" \in j.calls
                    /\ j.finalPrunedIds # <<>>
             /\ (j.pc = "set" /\ j.oracleIds = <<>> /\ k # j) =>
                    k.pc = "done" /\ k.toast = "none" /\ "toast" \notin k.calls
             /\ (j.pc = "oracle" /\ k.pc = "set" /\ k.oracleIds = <<>>) =>
                    PrunedSet(state', j.sessionID) = PrunedSet(state, j.sessionID)]_vars

\* the age window in force: the configured one, or the default
AgeWindow ==
    IF strategy.config.hasMinAge THEN strategy.config.minAge ELSE DefaultMinAge

\* the identifier at position i of the not-yet-pruned list is an errored call
ErroredAt(i) ==
    LET id == strategy.unprunedIds[i]
    IN  id \in DOMAIN strategy.toolMetadata /\ strategy.toolMetadata[id].hasError

\* the tool of the identifier at position i is in the protected list
ProtectedAt(i) ==
    LET id == strategy.unprunedIds[i]
    IN  /\ id \in DOMAIN strategy.toolMetadata
        /\ strategy.toolMetadata[id].tool \in Range(strategy.protectedTools)

\* C24: with age window N the strategy emits none of the last N identifiers
\* of the not-yet-pruned list, and emits an earlier identifier exactly when
\* it has metadata, is marked as errored and its tool is not protected.
C24_AgeWindow ==
    strategy.called =>
        \A i \in 1..Len(strategy.unprunedIds) :
            strategy.unprunedIds[i] \in Range(strategy.prunedIds) <=>
                /\ i <= Len(strategy.unprunedIds) - AgeWindow
                /\ ErroredAt(i)
                /\ ~ProtectedAt(i)

\* C25: the strategy emits no identifier whose tool name is in the
\* configured protected list.
C25_ProtectedNeverEmitted ==
    strategy.called =>
        \A i \in 1..Len(strategy.unprunedIds) :
            ProtectedAt(i) => strategy.unprunedIds[i] \notin Range(strategy.prunedIds)

\* C26: with a configured age window of at least 1, no errored bash call
\* among the last 5 identifiers of the not-yet-pruned list is emitted.
C26_RecentBashErrorKept ==
    (strategy.called /\ strategy.config.hasMinAge /\ strategy.config.minAge >= 1) =>
        \A i \in 1..Len(strategy.unprunedIds) :
            (/\ i > Len(strategy.unprunedIds) - 5
             /\ ErroredAt(i)
             /\ strategy.toolMetadata[strategy.unprunedIds[i]].tool = "bash")
                => strategy.unprunedIds[i] \notin Range(strategy.prunedIds)

\* C31: after a run's commit lastPruneCount of the session is the number of
\* identifiers the commit added to the pruned set, and is not negative;
\* resetLastPruneCount sets it to 0, keeps the pruned set and creates no
\* entry for a session that has none.
C31_LastPruneCountIsAdded ==
    [][/\ \A r \in Runs :
            (janitor[r].pc = "oracle" /\ janitor'[r].pc = "set") =>
                LET sid == janitor[r].sessionID
                    count == StateManagerGetLastPruneCount(state', sid)
                IN  /\ count = Cardinality(PrunedSet(state', sid) \ PrunedSet(state, sid))
                    /\ count >= 0
       /\ \A b \in Sessions :
            ResetLastPruneCount(b) =>
                /\ StateManagerGetLastPruneCount(state', b) = 0
                /\ StateManagerGet(state', b) = StateManagerGet(state, b)
                /\ state'[b].present = state[b].present]_vars

\* no element occurs twice in the list
NoDuplicates(seq) ==
    \A i, k \in 1..Len(seq) : seq[i] = seq[k] => i = k

\* C32: the pruned-identifier list of a session never holds an identifier
\* twice, whatever the oracle names: a repeated identifier, an identifier
\* that is already pruned, or a batch call together with one of its children.
C32_PrunedListHasNoDuplicates ==
    \A s \in Sessions : NoDuplicates(StateManagerGet(state, s))

\* a commit whose oracle answer names a batch call and a child of it that the
\* session had pruned before
W32_BatchAndPrunedChildNamed ==
    \E r \in Runs :
        LET j == janitor[r]
        IN  /\ j.pc = "set"
            /\ StateManagerGet(state, j.sessionID) = j.allPrunedIds
            /\ \E b \in DOMAIN j.batchToolChildren :
                   /\ b \in Range(j.oracleIds)
                   /\ \E c \in Range(j.batchToolChildren[b]) :
                          c \in Range(j.oracleIds) /\ c \in Range(j.alreadyPrunedIds)

\* C33: after prune has been applied, applying it again with the same pruned
\* set leaves the messages exactly as they are.
C33_PruneIdempotent ==
    pruned => PruneMessages(toolIds, messages) = messages

\* prune has written the output placeholder and the error placeholder
W33_PlaceholdersWritten ==
    /\ pruned
    /\ \E pos \in Positions(messages) :
           messages[pos[1]].parts[pos[2]].output = PRUNED_TOOL_OUTPUT_REPLACEMENT
    /\ \E pos \in Positions(messages) :
           LET part == messages[pos[1]].parts[pos[2]]
           IN  /\ part.status = "error"
               /\ part.input.present
               /\ part.input.fields["filePath"] = PRUNED_TOOL_ERROR_INPUT_REPLACEMENT

\* C34: prune keeps the number and order of messages and of parts, each
\* part's type, callID, tool and status, every non-tool part, every tool part
\* whose status is pending or running, and the pruned set it reads.
C34_PruneOnlyOverwritesFields ==
    [][Prune =>
         /\ SameShape(messages, messages')
         /\ toolIds' = toolIds
         /\ \A pos \in Positions(messages) :
                LET before == messages[pos[1]].parts[pos[2]]
                    after == messages'[pos[1]].parts[pos[2]]
                IN  /\ after.type = before.type
                    /\ after.callID = before.callID
                    /\ after.tool = before.tool
                    /\ after.status = before.status
                    /\ before.type # "tool" => after = before
                    /\ before.status \in {"pending", "running"} => after = before]_vars

\* prune has overwritten a field next to a pruned call that has not ended
W34_PendingPartBesideReplaced ==
    /\ pruned
    /\ messages # original
    /\ \E pos \in Positions(messages) :
           LET part == messages[pos[1]].parts[pos[2]]
           IN  /\ ~messages[pos[1]].compacted
               /\ part.type = "tool"
               /\ part.callID \in Range(toolIds)
               /\ part.status \in {"pending", "running"}
               /\ part.tool = "read"

\* C35: for the sequence of a request, hasToolOutputs is true exactly when
\* extractToolOutputs returns a non-empty list.
C35_HasAgreesWithExtract ==
    ret.op \in {"hasToolOutputs", "extractToolOutputs"} =>
        (HasToolOutputs(GetDataArray(body))
            <=> ExtractToolOutputs(GetDataArray(body), toolParameters) # <<>>)

\* C36: when injectSynth returns true, the last user message that is no nudge
\* holds the instruction after the call and did not hold it before, and the
\* sequence has changed, whatever the shape of the message's content.
C36_InjectSynthReportsTruthfully ==
    [][(BedrockInjectSynth /\ ret'.value) =>
         LET data == body.messages
             now == body'.messages
             turns == GenuineUserTurns(data)
         IN  /\ turns # {}
             /\ LET i == CHOOSE k \in turns : \A m \in turns : m <= k
                IN  /\ ~ContainsInstruction(data[i])
                    /\ Len(now) = Len(data)
                    /\ ContainsInstruction(now[i])
             /\ now # data]_vars

\* C37: a call of trackNewToolResults raises toolResultCount by one for each
\* identifier it sees for the first time, unless the identifier's tool name
\* is known and protected, by nothing for an identifier seen before, and
\* returns the amount by which toolResultCount has grown.
C37_TrackCountsOncePerIdentifier ==
    [][BedrockTrackNewToolResults =>
         LET seen == tracker.seenToolResultIds
             fresh == tracker'.seenToolResultIds \ seen
             protectedTools == {ret'.arg} \ {""}
             grown == tracker'.toolResultCount - tracker.toolResultCount
         IN  /\ seen \subseteq tracker'.seenToolResultIds
             /\ grown = Cardinality(
                    {id \in fresh :
                        ~(/\ GetToolName(toolParameters, id) # Undefined
                          /\ GetToolName(toolParameters, id) \in protectedTools)})
             /\ ret'.count = grown]_vars

\* a second call on the same messages after a call that counted call_2
W37_ResultSentAgain ==
    /\ ret.op = "trackNewToolResults"
    /\ ret.count = 0
    /\ tracker.seenToolResultIds = {"call_2"}
    /\ tracker.toolResultCount = 1

====
